---------------------------- MODULE Spec2Model ----------------------------
(***************************************************************************)
(* Model of the breadboard-computer programmer firmware (Arduino.ino):     *)
(* the RAM/PC transfer engine, the execution-control engine (run, get_pc,  *)
(* set_pc), the breakpoint set and its persistence in the EEPROM.          *)
(***************************************************************************)
EXTENDS Integers, Sequences, FiniteSets, TLC

(***************************************************************************)
(* Program constants                                                       *)
(***************************************************************************)
MAX_BREAKPOINTS == 10
EepromSize == 1024
ConfigSize == 16
BpCountAddr == 1022
BpTopAddr == 1021
RamSize == 16

(***************************************************************************)
(* Bounds of the model                                                     *)
(***************************************************************************)
MaxCmds == 2
MaxBpVal == 10
MaxLen == 17
ExecCap == 3
MaxRunN == 3
MaxLines == 3
MaxFill == 18
FreeLines == 2

Byte == 0..255
BpVals == 0..MaxBpVal
ImageNums == {0, 62, 63}

(***************************************************************************)
(* State                                                                   *)
(***************************************************************************)
VARIABLES
  mode,             \* "loop" (waiting in loop()) or "monitor" (inside monitor())
  num_breakpoints,  \* byte num_breakpoints
  breakpoints,      \* byte breakpoints[10]
  eeprom,           \* the internal EEPROM, 1024 bytes
  ram,              \* the target's RAM, 16 bytes
  msg,              \* the message the last command printed
  cmd,              \* the last command dispatched, with its argument
  ncmds,            \* number of state-changing commands so far
  clk,              \* level of the clock line (PIN_CLK)
  pins,             \* the programmer's pins: MI/RI/RO latches and mode, bus mode and
                    \* value, EE line
  intr,             \* TRUE while interrupts are enabled
  mar,              \* the target's memory address register (4 bits)
  cpu,              \* the target's control unit and registers
  pc,               \* the firmware's position (a label naming the source line)
  stack,            \* return labels of the calls in progress
  fr,               \* arguments and locals of read_ram, write_ram, get_pc, run, set_pc
  gh,               \* history kept for stating the claims
  asm,              \* the assembler: write address, origin, label table, and what
                    \* the lines assembled so far did
  print_serial_output,  \* bool print_serial_output
  wcs               \* wait_clock_stop: its position and locals, and the clock
                    \* generator it watches

bpVars == <<mode, print_serial_output, num_breakpoints, breakpoints, eeprom, msg, cmd,
           ncmds, wcs>>
hwVars == <<clk, pins, intr, mar, cpu>>
fwVars == <<pc, stack, fr, gh>>
vars == <<mode, num_breakpoints, breakpoints, eeprom, ram, msg, cmd, ncmds,
          clk, pins, intr, mar, cpu, pc, stack, fr, gh, asm, print_serial_output,
          wcs>>

\* wait_clock_stop has not been called
Wcs0 == [pc |-> "idle", running |-> TRUE, half |-> 1, phase |-> 0,
         m |-> 0, len |-> 0, e |-> 0]

(***************************************************************************)
(* EEPROM access                                                           *)
(***************************************************************************)
\* EEPROM.write(addr, v)
EepromWrite(e, addr, v) == IF addr \in DOMAIN e THEN [e EXCEPT ![addr] = v] ELSE e

\* the bound test of write_eeprom / read_eeprom (unsigned 16-bit arithmetic)
EepromRangeOk_upto1024(internal, start, size) ==
  internal /\ ((start + size) % 65536) <= EepromSize

EepromRangeOk(internal, start, size) ==
  internal /\ ((start + size) % 65536) < (EepromSize - ConfigSize)

RECURSIVE WriteBytes(_, _, _, _, _)
WriteBytes(e, buf, start, size, i) ==
  IF i >= size THEN e
  ELSE WriteBytes(EepromWrite(e, start + i, buf[i]), buf, start, size, i + 1)

\* write_eeprom: buf is indexed from 0; the result is the pair (res, EEPROM)
write_eeprom(e, buf, internal, start, size) ==
  IF EepromRangeOk(internal, start, size)
  THEN [res |-> TRUE, eeprom |-> WriteBytes(e, buf, start, size, 0)]
  ELSE [res |-> FALSE, eeprom |-> e]

\* read_eeprom: the result is the pair (res, buffer); buffer is left as it was on failure
read_eeprom(e, buf, internal, start, size) ==
  IF EepromRangeOk(internal, start, size)
  THEN [res |-> TRUE,
        buffer |-> [i \in DOMAIN buf |-> IF i < size THEN e[start + i] ELSE buf[i]]]
  ELSE [res |-> FALSE, buffer |-> buf]

(***************************************************************************)
(* Functional summaries of the RAM transfers (one byte per address,        *)
(* address = start+i as a byte, of which the target latches 4 bits)        *)
(***************************************************************************)
Address_noindex(start, i) == start % 256

Address(start, i) == (start + i) % 256

RamCell(address) == address % RamSize

read_ram_result(r, start, len) ==
  [i \in 0..(len - 1) |-> r[RamCell(Address(start, i))]]

RECURSIVE write_ram_from(_, _, _, _, _)
write_ram_from(r, data, start, len, i) ==
  IF i >= len THEN r
  ELSE write_ram_from([r EXCEPT ![RamCell(Address(start, i))] = data[i]],
                      data, start, len, i + 1)

write_ram_result(r, data, start, len) == write_ram_from(r, data, start, len, 0)

(***************************************************************************)
(* RAM images: save_data / load_data and save_ram_image / load_ram_image   *)
(* in the 4-bit configuration.  buf is the global buffer as the call finds *)
(* it, print is print_serial_output, msg the last line printed ("" when    *)
(* nothing is printed)                                                     *)
(***************************************************************************)
BUFFER_SIZE == 256

\* save_data(eeprom_internal, eeprom_start, ram_start, size)
save_data(e, r, print, internal, eeprom_start, ram_start, size) ==
  IF print /\ size > BUFFER_SIZE
  THEN [eeprom |-> e, msg |-> "[Error: buffer to small]"]
  ELSE LET w == write_eeprom(e, read_ram_result(r, ram_start, size), internal,
                             eeprom_start, size)
       IN [eeprom |-> w.eeprom,
           msg |-> IF ~print THEN ""
                   ELSE IF w.res THEN "Saved:"
                   ELSE "[Error: exceeded EEPROM address space"]

\* load_data(eeprom_internal, eeprom_start, ram_start, size): the silent branch
\* writes the buffer to RAM whatever read_eeprom returned
load_data(e, r, buf, print, internal, eeprom_start, ram_start, size) ==
  IF print /\ size > BUFFER_SIZE
  THEN [ram |-> r, msg |-> "[Error: buffer to small]"]
  ELSE LET rd == read_eeprom(e, buf, internal, eeprom_start, size)
       IN IF print
          THEN IF rd.res
               THEN [ram |-> write_ram_result(r, rd.buffer, 0, size),
                     msg |-> "Loading:"]
               ELSE [ram |-> r, msg |-> "[Error: exceeded EEPROM address space"]
          ELSE [ram |-> write_ram_result(r, rd.buffer, 0, size), msg |-> ""]

\* save_ram_image(num, true): the resulting EEPROM and message
save_ram_image(e, r, print, num) ==
  save_data(e, r, print, TRUE, num * 16, 0, RamSize)

\* load_ram_image(num, true): the resulting RAM and message
load_ram_image(e, r, buf, print, num) ==
  load_data(e, r, buf, print, TRUE, num * 16, 0, RamSize)

\* the ASCII code of the lowercase hex digit d
HexDigitCode(d) == IF d < 10 THEN 48 + d ELSE 87 + d

\* the buffer after the command line "l nn" was read into it: the characters typed,
\* followed by what the buffer held before
CommandLineBuffer(letter, n, before) ==
  [i \in 0..(RamSize - 1) |->
     CASE i = 0 -> letter
       [] i = 1 -> 32
       [] i = 2 -> HexDigitCode(n \div 16)
       [] i = 3 -> HexDigitCode(n % 16)
       [] OTHER -> before[i]]

(***************************************************************************)
(* Breakpoint set                                                          *)
(***************************************************************************)
RECURSIVE SaveValues(_, _, _, _)
SaveValues(e, num, bps, i) ==
  IF i >= num THEN e
  ELSE SaveValues(EepromWrite(e, BpTopAddr - i, bps[i]), num, bps, i + 1)

\* save_breakpoints: the values at 1021-i, then the count at 1022
save_breakpoints(e, num, bps) ==
  EepromWrite(SaveValues(e, num, bps, 0), BpCountAddr, num)

\* load_breakpoints: the pair (num_breakpoints, breakpoints)
load_breakpoints(e, num, bps) ==
  LET n == e[BpCountAddr]
  IN IF n <= MAX_BREAKPOINTS
     THEN [num |-> n,
           bps |-> [i \in DOMAIN bps |-> IF i < n THEN e[BpTopAddr - i] ELSE bps[i]]]
     ELSE [num |-> num, bps |-> bps]

\* the scan 'for(j=0; j<num_breakpoints; j++) if( breakpoints[j]==a ) break;'
FindBreakpoint_never(num, bps, a) == num

FindBreakpoint(num, bps, a) ==
  IF \E j \in 0..(num - 1) : bps[j] = a
  THEN CHOOSE j \in 0..(num - 1) :
         bps[j] = a /\ \A k \in 0..(j - 1) : bps[k] # a
  ELSE num

HasRoom_offbyone(num) == num < MAX_BREAKPOINTS - 1

HasRoom(num) == num < MAX_BREAKPOINTS

\* breakpoints[num_breakpoints++] = a
AppendBreakpoint(num, bps, a) ==
  [num |-> num + 1, bps |-> IF num \in DOMAIN bps THEN [bps EXCEPT ![num] = a] ELSE bps]

\* breakpoints[j] = breakpoints[--num_breakpoints]
RemoveAt_droplast(num, bps, j) == [num |-> num - 1, bps |-> bps]

RemoveAt(num, bps, j) ==
  [num |-> num - 1, bps |-> [bps EXCEPT ![j] = bps[num - 1]]]

BpSet(num, bps) == {bps[i] : i \in 0..(num - 1)}

FreshEeprom == [a \in 0..(EepromSize - 1) |-> 255]
ZeroBreakpoints == [i \in 0..(MAX_BREAKPOINTS - 1) |-> 0]
InitialRam == [a \in 0..(RamSize - 1) |-> (17 * a) % 256]

\* the stores the firmware itself leaves behind: never written, or holding the
\* k breakpoints 0..k-1 added in that order (none, one short of full, full)
InitialStores ==
  {FreshEeprom} \cup
  {save_breakpoints(FreshEeprom, k,
                    [i \in 0..(MAX_BREAKPOINTS - 1) |-> IF i < k THEN i ELSE 0])
     : k \in {0, MAX_BREAKPOINTS - 1, MAX_BREAKPOINTS}}

(***************************************************************************)
(* Opcode table (opcodes_4bit): mnemonic, opcode, num_cycles, has_arg      *)
(***************************************************************************)
opcodes_4bit == <<
  [mnemonic |-> <<"N", "O", "P", " ", " ">>, opcode |-> 0,   num_cycles |-> 3, has_arg |-> FALSE],
  [mnemonic |-> <<"L", "D", "A", " ", " ">>, opcode |-> 16,  num_cycles |-> 3, has_arg |-> TRUE],
  [mnemonic |-> <<"A", "D", "D", " ", " ">>, opcode |-> 32,  num_cycles |-> 3, has_arg |-> TRUE],
  [mnemonic |-> <<"S", "U", "B", " ", " ">>, opcode |-> 48,  num_cycles |-> 3, has_arg |-> TRUE],
  [mnemonic |-> <<"S", "T", "A", " ", " ">>, opcode |-> 64,  num_cycles |-> 3, has_arg |-> TRUE],
  [mnemonic |-> <<"L", "D", "I", " ", " ">>, opcode |-> 80,  num_cycles |-> 3, has_arg |-> TRUE],
  [mnemonic |-> <<"J", "M", "P", " ", " ">>, opcode |-> 96,  num_cycles |-> 3, has_arg |-> TRUE],
  [mnemonic |-> <<"J", "C", " ", " ", " ">>, opcode |-> 112, num_cycles |-> 3, has_arg |-> TRUE],
  [mnemonic |-> <<"J", "Z", " ", " ", " ">>, opcode |-> 128, num_cycles |-> 3, has_arg |-> TRUE],
  [mnemonic |-> <<"D", "S", "I", " ", " ">>, opcode |-> 144, num_cycles |-> 3, has_arg |-> TRUE],
  [mnemonic |-> <<"I", "N", "C", " ", " ">>, opcode |-> 160, num_cycles |-> 3, has_arg |-> TRUE],
  [mnemonic |-> <<"D", "E", "C", " ", " ">>, opcode |-> 176, num_cycles |-> 3, has_arg |-> TRUE],
  [mnemonic |-> <<"L", "D", "B", " ", " ">>, opcode |-> 192, num_cycles |-> 3, has_arg |-> TRUE],
  [mnemonic |-> <<"D", "S", "P", " ", " ">>, opcode |-> 208, num_cycles |-> 3, has_arg |-> TRUE],
  [mnemonic |-> <<"O", "U", "T", " ", " ">>, opcode |-> 224, num_cycles |-> 3, has_arg |-> FALSE],
  [mnemonic |-> <<"H", "L", "T", " ", " ">>, opcode |-> 240, num_cycles |-> 3, has_arg |-> FALSE],
  [mnemonic |-> <<".", "O", "R", " ", " ">>, opcode |-> 254, num_cycles |-> 0, has_arg |-> TRUE],
  [mnemonic |-> <<".", "B", "Y", " ", " ">>, opcode |-> 255, num_cycles |-> 0, has_arg |-> TRUE] >>

HighNibble(b) == (b \div 16) * 16
LowNibble(b) == b % 16

\* the table run() builds in buffer[]: for each descriptor in table order,
\* buffer[opcode & 0xF0] = num_cycles (a later descriptor overwrites an earlier one)
RECURSIVE CycleTableFrom(_, _)
CycleTableFrom(tbl, k) ==
  IF k > Len(opcodes_4bit) THEN tbl
  ELSE CycleTableFrom(
         [tbl EXCEPT ![HighNibble(opcodes_4bit[k].opcode)] = opcodes_4bit[k].num_cycles],
         k + 1)

CycleTable_zero == [b \in {16 * n : n \in 0..15} |-> 0]

CycleTable == CycleTableFrom([b \in {16 * n : n \in 0..15} |-> 0], 1)

(***************************************************************************)
(* The programmer's pins                                                   *)
(***************************************************************************)
SET_RO_HIGH(p) == [p EXCEPT !.ro = 1]
SET_RO_LOW_keep(p) == p

SET_RO_LOW(p) == [p EXCEPT !.ro = 0]
SET_RI_HIGH(p) == [p EXCEPT !.ri = 1]
SET_RI_LOW(p) == [p EXCEPT !.ri = 0]
SET_MI_HIGH(p) == [p EXCEPT !.mi = 1]
SET_MI_LOW_keep(p) == p

SET_MI_LOW(p) == [p EXCEPT !.mi = 0]
SET_EE_HIGH(p) == [p EXCEPT !.ee = 1]
SET_EE_LOW_keep(p) == p

SET_EE_LOW(p) == [p EXCEPT !.ee = 0]
SET_CS_INPUT_keep(p) == p

SET_CS_INPUT(p) == [p EXCEPT !.cs = "in"]
SET_CS_OUTPUT(p) == [p EXCEPT !.cs = "out"]
SET_BUS_INPUT(p) == [p EXCEPT !.bus = "in"]
SET_BUS_OUTPUT(p) == [p EXCEPT !.bus = "out"]

\* enable_signal_control()
enable_signal_control(p) ==
  SET_EE_HIGH(SET_CS_OUTPUT(SET_RI_LOW(SET_RO_LOW(SET_MI_LOW(p)))))

\* the pin writes of disable_signal_control()
disable_signal_control(p) == SET_CS_INPUT(SET_EE_LOW(p))

\* pins after setup(): control lines released to the target
ReleasedPins ==
  [mi |-> 0, ri |-> 0, ro |-> 0, cs |-> "in", bus |-> "in", busout |-> 0, ee |-> 0]

\* pins inside the monitor, between operations
MonitorPins == enable_signal_control(ReleasedPins)

(***************************************************************************)
(* The target: 4-bit program counter and address register, 16 bytes of     *)
(* RAM, five clock cycles per instruction (two fetch cycles plus the       *)
(* num_cycles of the opcode table)                                         *)
(***************************************************************************)
FetchCycles == 2

TargetCycles(ir) == FetchCycles + opcodes_4bit[(ir \div 16) + 1].num_cycles

\* the control unit drives the control lines while its microcode is enabled (EE low)
\* and the programmer's control pins are inputs
TargetInControl(p) == p.cs = "in" /\ p.ee = 0

\* the byte on the bus: what the programmer drives, or what the RAM puts out on RO,
\* or what the target puts out in its fetch cycles (program counter, then opcode)
BusValue(p, r, m, c) ==
  IF p.bus = "out" THEN p.busout
  ELSE IF p.cs = "out" THEN (IF p.ro = 1 THEN r[m] ELSE 0)
  ELSE IF p.ee = 0
       THEN (IF c.step = 0 THEN c.pc ELSE IF c.step = 1 THEN r[m] ELSE 0)
       ELSE 0

\* read_bus()
read_bus == BusValue(pins, ram, mar, cpu)

\* write_bus(data)
write_bus(p, data) == [p EXCEPT !.busout = data]

\* the instruction set (effect of the execute cycles of the instruction in ir)
Execute(c, r, m) ==
  LET op == c.ir \div 16
      arg == c.ir % 16
      sum == c.a + r[arg]
      inc == c.a + arg
  IN CASE op = 1 -> [cpu |-> [c EXCEPT !.a = r[arg]], ram |-> r, mar |-> arg]
       [] op = 2 -> [cpu |-> [c EXCEPT !.a = sum % 256, !.cf = sum > 255,
                                       !.zf = (sum % 256 = 0)],
                     ram |-> r, mar |-> arg]
       [] op = 3 -> [cpu |-> [c EXCEPT !.a = (c.a - r[arg]) % 256, !.cf = c.a >= r[arg],
                                       !.zf = (c.a = r[arg])],
                     ram |-> r, mar |-> arg]
       [] op = 4 -> [cpu |-> c, ram |-> [r EXCEPT ![arg] = c.a], mar |-> arg]
       [] op = 5 -> [cpu |-> [c EXCEPT !.a = arg], ram |-> r, mar |-> m]
       [] op = 6 -> [cpu |-> [c EXCEPT !.pc = arg], ram |-> r, mar |-> m]
       [] op = 7 -> [cpu |-> IF c.cf THEN [c EXCEPT !.pc = arg] ELSE c,
                     ram |-> r, mar |-> m]
       [] op = 8 -> [cpu |-> IF c.zf THEN [c EXCEPT !.pc = arg] ELSE c,
                     ram |-> r, mar |-> m]
       [] op = 10 -> [cpu |-> [c EXCEPT !.a = inc % 256, !.cf = inc > 255,
                                        !.zf = (inc % 256 = 0)],
                      ram |-> r, mar |-> m]
       [] op = 11 -> [cpu |-> [c EXCEPT !.a = (c.a - arg) % 256, !.cf = c.a >= arg,
                                        !.zf = (c.a = arg)],
                      ram |-> r, mar |-> m]
       [] op = 12 -> [cpu |-> [c EXCEPT !.b = r[arg]], ram |-> r, mar |-> arg]
       [] op = 13 -> [cpu |-> c, ram |-> r, mar |-> arg]
       [] OTHER -> [cpu |-> c, ram |-> r, mar |-> m]

\* the target at power-up with its program counter at p0
Cpu0(p0) ==
  [pc |-> p0, ir |-> 0, step |-> 0, a |-> 0, b |-> 0, cf |-> FALSE, zf |-> FALSE,
   halted |-> FALSE]

(***************************************************************************)
(* Firmware position: labels name the source line about to be executed     *)
(***************************************************************************)
WaitHigh == {"ds170",
             "rr191", "rr198", "rr208", "rr213",
             "wr228", "wr237", "wr246", "wr251",
             "gp1085", "gp1096",
             "ru1173", "ru1186", "ru1220", "ru1229"}

WaitLow == {"ds171",
            "rr203", "rr209", "rr217",
            "wr242", "wr247", "wr254",
            "gp1086",
            "ru1174", "ru1217", "ru1224", "ru1230"}

\* at the prompt; one command is followed here, and no second one after it
Idle == {"idle"}

NoWrite == [start |-> -1, len |-> -1, data |-> <<>>]

Fr0 ==
  [xs |-> 0, xl |-> 0, xi |-> 0, xd |-> <<>>,
   g_pc |-> 0,
   num |-> 0, i |-> 0, first |-> TRUE, opcode |-> 0, rpc |-> 0, j |-> 0, cycles |-> 0,
   ret |-> TRUE,
   sv |-> 0, cur |-> 0, data |-> <<>>, jmp |-> <<>>,
   wait_clock |-> FALSE]

\* the assembler before any assemble(): no labels (num_labels is the length of
\* labels), and nothing on record about lines
Asm0 ==
  [active |-> FALSE, a |-> 0, addr |-> 0, labels |-> <<>>,
   nlines |-> 0, line |-> <<>>, ok |-> TRUE, out |-> <<>>, idx |-> 0,
   before |-> [a |-> 0, addr |-> 0, labels |-> <<>>, ram |-> <<>>, writer |-> <<>>],
   patches |-> <<>>, refs |-> <<>>, src |-> <<>>,
   writer |-> [c \in 0..(RamSize - 1) |-> 0],
   report |-> [printed |-> FALSE, names |-> <<>>], disa |-> -1, text |-> <<>>]

Gh0 ==
  [op |-> "none", arg |-> 0, wr |-> NoWrite,
   exit |-> "none", outcome |-> "none", host |-> FALSE,
   execN |-> 0, execLast |-> -1, iters |-> 0, fetched |-> -1,
   ram0 |-> <<>>, pc0 |-> -1, ramWrites |-> 0, rises |-> 0]

(***************************************************************************)
(* Monitor: power-up, entry and the breakpoint and image commands          *)
(***************************************************************************)
\* the monitor commands below run between bus operations: clock, target and the
\* locals of the bus routines are as they were
HwIdle == UNCHANGED <<clk, intr, mar, cpu, pc, stack, fr, gh, asm, wcs>>

InitBp ==
  /\ mode = "loop"
  /\ num_breakpoints = 0
  /\ breakpoints = ZeroBreakpoints
  /\ eeprom \in InitialStores
  /\ ram = InitialRam
  /\ msg = ""
  /\ cmd = [op |-> "power", arg |-> 0]
  /\ ncmds = 0
  /\ clk = 0
  /\ pins = ReleasedPins
  /\ intr = TRUE
  /\ mar = 0
  /\ cpu = Cpu0(0)
  /\ pc = "idle"
  /\ stack = <<>>
  /\ fr = Fr0
  /\ gh = Gh0
  /\ asm = Asm0
  /\ print_serial_output = TRUE
  /\ wcs = Wcs0

\* power is removed and applied again: globals are zero-initialised, the EEPROM keeps
PowerCycle ==
  /\ mode' = "loop"
  /\ num_breakpoints' = 0
  /\ breakpoints' = ZeroBreakpoints
  /\ msg' = ""
  /\ cmd' = [op |-> "power", arg |-> 0]
  /\ pins' = ReleasedPins
  /\ print_serial_output' = TRUE
  /\ HwIdle
  /\ UNCHANGED <<eeprom, ram, ncmds>>

\* loop(): print_serial_output = Serial.available()>0, then Serial.read()==27 and
\* monitor() with its load_breakpoints().  seen tells whether the ESC was already
\* received when Serial.available() was sampled; it can arrive after the sample
\* only when a button ended the wait
EnterMonitor(seen) ==
  /\ mode = "loop"
  /\ print_serial_output' = seen
  /\ LET l == load_breakpoints(eeprom, num_breakpoints, breakpoints)
     IN /\ num_breakpoints' = l.num
        /\ breakpoints' = l.bps
  /\ mode' = "monitor"
  /\ msg' = ""
  /\ cmd' = [op |-> "enter", arg |-> 0]
  /\ pins' = enable_signal_control(pins)
  /\ HwIdle
  /\ UNCHANGED <<eeprom, ram, ncmds>>

\* command 'x'
ExitMonitor ==
  /\ mode = "monitor"
  /\ mode' = "loop"
  /\ msg' = "Exiting monitor..."
  /\ cmd' = [op |-> "x", arg |-> 0]
  /\ pins' = disable_signal_control(pins)
  /\ HwIdle
  /\ UNCHANGED <<print_serial_output, num_breakpoints, breakpoints, eeprom, ram, ncmds>>

\* command 'b a'
CmdAddBreakpoint(a) ==
  /\ mode = "monitor"
  /\ pins' = pins
  /\ HwIdle
  /\ ncmds < MaxCmds
  /\ ncmds' = ncmds + 1
  /\ cmd' = [op |-> "b", arg |-> a]
  /\ LET j == FindBreakpoint(num_breakpoints, breakpoints, a)
     IN IF j >= num_breakpoints
        THEN IF HasRoom(num_breakpoints)
             THEN LET n == AppendBreakpoint(num_breakpoints, breakpoints, a)
                  IN /\ num_breakpoints' = n.num
                     /\ breakpoints' = n.bps
                     /\ eeprom' = save_breakpoints(eeprom, n.num, n.bps)
                     /\ msg' = "Added breakpoint at: "
             ELSE /\ msg' = "Too many breakpoints."
                  /\ UNCHANGED <<num_breakpoints, breakpoints, eeprom>>
        ELSE /\ msg' = "Breakpoint already exists."
             /\ UNCHANGED <<num_breakpoints, breakpoints, eeprom>>
  /\ UNCHANGED <<mode, print_serial_output, ram>>

\* command 'b' without an argument: show_breakpoints()
CmdShowBreakpoints ==
  /\ mode = "monitor"
  /\ pins' = pins
  /\ HwIdle
  /\ cmd' = [op |-> "b", arg |-> -1]
  /\ msg' = "Breakpoints at:"
  /\ UNCHANGED <<mode, print_serial_output, num_breakpoints, breakpoints, eeprom, ram, ncmds>>

\* command 'B a'
CmdRemoveBreakpoint(a) ==
  /\ mode = "monitor"
  /\ pins' = pins
  /\ HwIdle
  /\ ncmds < MaxCmds
  /\ ncmds' = ncmds + 1
  /\ cmd' = [op |-> "B", arg |-> a]
  /\ LET j == FindBreakpoint(num_breakpoints, breakpoints, a)
     IN IF j < num_breakpoints
        THEN LET n == RemoveAt(num_breakpoints, breakpoints, j)
             IN /\ num_breakpoints' = n.num
                /\ breakpoints' = n.bps
                /\ eeprom' = save_breakpoints(eeprom, n.num, n.bps)
                /\ msg' = "Removed breakpoint at: "
        ELSE /\ msg' = "Breakpoint not found."
             /\ UNCHANGED <<num_breakpoints, breakpoints, eeprom>>
  /\ UNCHANGED <<mode, print_serial_output, ram>>

\* command 'B *'
CmdRemoveAll ==
  /\ mode = "monitor"
  /\ pins' = pins
  /\ HwIdle
  /\ ncmds < MaxCmds
  /\ ncmds' = ncmds + 1
  /\ cmd' = [op |-> "B*", arg |-> 0]
  /\ num_breakpoints' = 0
  /\ eeprom' = save_breakpoints(eeprom, 0, breakpoints)
  /\ msg' = "Removing all breakpoints."
  /\ UNCHANGED <<mode, print_serial_output, breakpoints, ram>>

\* command 'B' with neither an address nor '*'
CmdRemoveNoArg ==
  /\ mode = "monitor"
  /\ pins' = pins
  /\ HwIdle
  /\ cmd' = [op |-> "B", arg |-> -1]
  /\ msg' = "Expected address argument."
  /\ UNCHANGED <<mode, print_serial_output, num_breakpoints, breakpoints, eeprom, ram, ncmds>>

\* what the buffer can hold from earlier operations: zeros after power-up, the RAM
\* image after a save
StaleBuffers(r) ==
  {[i \in 0..(RamSize - 1) |-> 0], read_ram_result(r, 0, RamSize)}

\* command 's n'
CmdSaveImage(n) ==
  /\ mode = "monitor"
  /\ pins' = pins
  /\ HwIdle
  /\ ncmds < MaxCmds
  /\ ncmds' = ncmds + 1
  /\ cmd' = [op |-> "s", arg |-> n]
  /\ LET s == save_ram_image(eeprom, ram, print_serial_output, n)
     IN /\ eeprom' = s.eeprom
        /\ msg' = s.msg
  /\ UNCHANGED <<mode, print_serial_output, num_breakpoints, breakpoints, ram>>

\* command 'l n'
CmdLoadImage(n) ==
  /\ mode = "monitor"
  /\ pins' = pins
  /\ HwIdle
  /\ ncmds < MaxCmds
  /\ ncmds' = ncmds + 1
  /\ cmd' = [op |-> "l", arg |-> n]
  /\ \E before \in StaleBuffers(ram) :
       LET l == load_ram_image(eeprom, ram, CommandLineBuffer(108, n, before),
                               print_serial_output, n)
       IN /\ ram' = l.ram
          /\ msg' = l.msg
  /\ UNCHANGED <<mode, print_serial_output, num_breakpoints, breakpoints, eeprom>>

NextBp ==
  \/ PowerCycle
  \/ EnterMonitor(TRUE)
  \/ ExitMonitor
  \/ \E a \in BpVals : CmdAddBreakpoint(a)
  \/ CmdShowBreakpoints
  \/ \E a \in BpVals : CmdRemoveBreakpoint(a)
  \/ CmdRemoveAll
  \/ CmdRemoveNoArg
  \/ \E n \in ImageNums : CmdSaveImage(n)
  \/ \E n \in ImageNums : CmdLoadImage(n)

SpecBp == InitBp /\ [][NextBp]_vars

(***************************************************************************)
(* Claims about the breakpoint set                                         *)
(***************************************************************************)
\* the breakpoint set in memory, as the count and the values in array order
InMemory == [num |-> num_breakpoints,
             vals |-> [i \in 0..(num_breakpoints - 1) |-> breakpoints[i]]]

\* the breakpoint set a power cycle followed by load_breakpoints yields
Persisted ==
  LET l == load_breakpoints(eeprom, 0, ZeroBreakpoints)
  IN [num |-> l.num, vals |-> [i \in 0..(l.num - 1) |-> l.bps[i]]]

\* C2: the breakpoint set never holds more than MAX_BREAKPOINTS entries and no value
\* appears twice among breakpoints[0..num_breakpoints-1]
C2_CapacityNoDuplicates ==
  /\ num_breakpoints <= MAX_BREAKPOINTS
  /\ \A i, j \in 0..(num_breakpoints - 1) : i # j => breakpoints[i] # breakpoints[j]

C2_Witness ==
  /\ cmd.op = "b"
  /\ msg = "Added breakpoint at: "
  /\ num_breakpoints = MAX_BREAKPOINTS

\* C3: an add of a value not in the set when the set holds 10 entries is rejected with
\* the capacity error, an add of a value already in the set is rejected as already
\* existing, and a rejected add changes neither the set in memory nor the EEPROM
C3_RejectedAddUnchanged ==
  [][(cmd'.op = "b" /\ cmd'.arg >= 0) =>
       LET inSet == cmd'.arg \in BpSet(num_breakpoints, breakpoints)
           full == num_breakpoints = MAX_BREAKPOINTS
       IN /\ (msg' = "Too many breakpoints.") <=> (~inSet /\ full)
          /\ (msg' = "Breakpoint already exists.") <=> inSet
          /\ (msg' = "Added breakpoint at: ") <=> (~inSet /\ ~full)
          /\ (msg' # "Added breakpoint at: ") =>
               UNCHANGED <<num_breakpoints, breakpoints, eeprom>>]_vars

C3_Witness ==
  /\ cmd.op = "b"
  /\ msg = "Too many breakpoints."
  /\ num_breakpoints = MAX_BREAKPOINTS
  /\ cmd.arg \notin BpSet(num_breakpoints, breakpoints)

\* C4: removing a member removes exactly that value, in memory and in the EEPROM, and
\* keeps every other member; removing a non-member reports not-found and changes
\* neither the set in memory nor the EEPROM
C4_RemoveExactlyThat ==
  [][(cmd'.op = "B" /\ cmd'.arg >= 0) =>
       LET before == BpSet(num_breakpoints, breakpoints)
       IN IF cmd'.arg \in before
          THEN /\ msg' = "Removed breakpoint at: "
               /\ BpSet(num_breakpoints', breakpoints') = before \ {cmd'.arg}
               /\ num_breakpoints' = num_breakpoints - 1
               /\ Persisted' = InMemory'
          ELSE /\ msg' = "Breakpoint not found."
               /\ UNCHANGED <<num_breakpoints, breakpoints, eeprom>>]_vars

C4_Witness ==
  /\ cmd.op = "B"
  /\ msg = "Removed breakpoint at: "
  /\ num_breakpoints >= 2
  /\ cmd.arg \notin BpSet(num_breakpoints, breakpoints)

\* C5: inside the monitor the set a power cycle followed by load_breakpoints would
\* yield is the set in memory, and no command other than add, remove and remove-all
\* changes the set in memory or the persisted set
C5_PersistedIsInMemory ==
  /\ [](mode = "monitor" => Persisted = InMemory)
  /\ [][(cmd'.op \notin {"b", "B", "B*"}) =>
          /\ Persisted' = Persisted
          /\ (cmd'.op \notin {"power", "enter"}) => InMemory' = InMemory]_vars

C5_Witness ==
  /\ cmd.op = "enter"
  /\ ncmds >= 2
  /\ num_breakpoints >= 2
  /\ MaxBpVal \in BpSet(num_breakpoints, breakpoints)


(***************************************************************************)
(* The clock.  The bus routines run with interrupts off and are faster     *)
(* than the clock, so an edge arrives only while the firmware waits for it *)
(* (or is idle at the prompt); a halted target holds the clock low.        *)
(***************************************************************************)
SatInc(n) == IF n < ExecCap THEN n + 1 ELSE n

\* history: the rising clock edges of a transfer, counted from the first one that
\* finds a control line pulsed (MI, RI or RO high)
CountRise(g, p) ==
  IF g.op \in {"write", "read"} /\ (g.rises > 0 \/ p.mi = 1 \/ p.ri = 1 \/ p.ro = 1)
  THEN [g EXCEPT !.rises = IF g.rises <= 2 * MaxLen THEN g.rises + 1 ELSE g.rises]
  ELSE g

\* rising edge: registers latch.  Under the programmer's control MI latches the bus
\* into the address register and RI writes the bus into the addressed RAM cell; under
\* the target's control cycle 0 latches the program counter into the address
\* register, cycle 1 loads the instruction register and increments the program
\* counter, cycle 2 starts the execution of the instruction
ClockRise ==
  /\ clk = 0
  /\ ~cpu.halted
  /\ pc \in WaitHigh \cup Idle
  /\ clk' = 1
  /\ LET bus == BusValue(pins, ram, mar, cpu)
     IN IF pins.cs = "out"
        THEN /\ mar' = IF pins.mi = 1 THEN RamCell(bus) ELSE mar
             /\ ram' = IF pins.ri = 1 THEN [ram EXCEPT ![mar] = bus] ELSE ram
             /\ gh' = CountRise(IF pins.ri = 1
                                 THEN [gh EXCEPT !.ramWrites = SatInc(gh.ramWrites)]
                                 ELSE gh, pins)
             /\ UNCHANGED cpu
        ELSE IF TargetInControl(pins)
        THEN CASE cpu.step = 0 ->
                    /\ mar' = cpu.pc
                    /\ UNCHANGED <<ram, cpu, gh>>
               [] cpu.step = 1 ->
                    /\ cpu' = [cpu EXCEPT !.ir = ram[mar], !.pc = (cpu.pc + 1) % RamSize]
                    /\ gh' = [gh EXCEPT !.fetched = ram[mar]]
                    /\ UNCHANGED <<ram, mar>>
               [] cpu.step = 2 ->
                    LET x == Execute(cpu, ram, mar)
                    IN /\ cpu' = x.cpu
                       /\ ram' = x.ram
                       /\ mar' = x.mar
                       /\ gh' = [gh EXCEPT !.execN = SatInc(gh.execN),
                                           !.execLast = cpu.ir]
               [] OTHER -> UNCHANGED <<ram, mar, cpu, gh>>
        ELSE UNCHANGED <<ram, mar, cpu, gh>>
  /\ UNCHANGED <<bpVars, asm, pins, intr, pc, stack, fr>>

\* falling edge: the target's step counter advances (it is held at 0 while the
\* programmer has control); entering the execute cycles of HLT stops the clock
ClockFall ==
  /\ clk = 1
  /\ pc \in WaitLow \cup Idle
  /\ clk' = 0
  /\ IF TargetInControl(pins)
     THEN LET st == (cpu.step + 1) % TargetCycles(cpu.ir)
          IN cpu' = [cpu EXCEPT !.step = st,
                                !.halted = (st = FetchCycles /\ cpu.ir \div 16 = 15)]
     ELSE UNCHANGED cpu
  /\ UNCHANGED <<bpVars, asm, ram, pins, intr, mar, pc, stack, fr, gh>>

(***************************************************************************)
(* Statement forms                                                         *)
(***************************************************************************)
\* wait_clock_high() / wait_clock_low() / wait_clock_info(level)
Wait(l, lvl, nxt) ==
  /\ pc = l
  /\ clk = lvl
  /\ pc' = nxt
  /\ UNCHANGED <<bpVars, asm, ram, hwVars, stack, fr, gh>>

\* a digitalWrite / pinMode macro
Pin(l, newpins, nxt) ==
  /\ pc = l
  /\ pins' = newpins
  /\ pc' = nxt
  /\ UNCHANGED <<bpVars, asm, ram, clk, intr, mar, cpu, stack, fr, gh>>

\* write_bus(v)
WriteBus(l, v, nxt) ==
  /\ pc = l
  /\ pins' = write_bus(pins, v)
  /\ pc' = nxt
  /\ UNCHANGED <<bpVars, asm, ram, clk, intr, mar, cpu, stack, fr, gh>>

\* SET_EE_HIGH(): the target's microcode is disabled, which holds its step counter
\* at the first fetch cycle and removes a pending halt
EeHigh(l, nxt) ==
  /\ pc = l
  /\ pins' = SET_EE_HIGH(pins)
  /\ cpu' = [cpu EXCEPT !.step = 0, !.halted = FALSE]
  /\ pc' = nxt
  /\ UNCHANGED <<bpVars, asm, ram, clk, intr, mar, stack, fr, gh>>

\* noInterrupts() / interrupts()
Interrupts(l, on, nxt) ==
  /\ pc = l
  /\ intr' = on
  /\ pc' = nxt
  /\ UNCHANGED <<bpVars, asm, ram, clk, pins, mar, cpu, stack, fr, gh>>

\* an assignment to locals, or a branch
Local(l, newfr, nxt) ==
  /\ pc = l
  /\ fr' = newfr
  /\ pc' = nxt
  /\ UNCHANGED <<bpVars, asm, ram, hwVars, stack, gh>>

\* return to the caller
Return(l) ==
  /\ pc = l
  /\ pc' = Head(stack)
  /\ stack' = Tail(stack)
  /\ UNCHANGED <<bpVars, asm, ram, hwVars, fr, gh>>

\* call of a bus routine with its arguments set in newfr
Call(l, newfr, newgh, entry, back) ==
  /\ pc = l
  /\ fr' = newfr
  /\ gh' = newgh
  /\ pc' = entry
  /\ stack' = <<back>> \o stack
  /\ UNCHANGED <<bpVars, asm, ram, hwVars>>

(***************************************************************************)
(* The loop test 'i<len' of read_ram and write_ram                         *)
(***************************************************************************)
MoreBytes_onefewer(i, len) == i + 1 < len

MoreBytes(i, len) == i < len

(***************************************************************************)
(* disable_signal_control(wait_clock), statement by statement              *)
(***************************************************************************)
disable_signal_control_steps ==
  \/ Interrupts("ds160", FALSE, "ds168")
  \/ Local("ds168", fr, IF fr.wait_clock THEN "ds170" ELSE "ds177")
  \/ Wait("ds170", 1, "ds171")
  \/ Wait("ds171", 0, "ds177")
  \/ Pin("ds177", SET_EE_LOW(pins), "ds180")
  \/ Pin("ds180", SET_CS_INPUT(pins), "ds182")
  \/ Interrupts("ds182", TRUE, "ds183")
  \/ Return("ds183")

(***************************************************************************)
(* read_ram(data, start, len): data is fr.xd, start fr.xs, len fr.xl       *)
(***************************************************************************)
read_ram ==
  \/ Wait("rr191", 1, "rr195")
  \/ Interrupts("rr195", FALSE, "rr198")
  \/ Wait("rr198", 1, "rr199")
  \/ Local("rr199", [fr EXCEPT !.xi = 0], "rr200")
  \/ Local("rr200", fr, IF MoreBytes(fr.xi, fr.xl) THEN "rr203" ELSE "rr217")
  \/ Wait("rr203", 0, "rr204")
  \/ Pin("rr204", SET_RO_LOW(pins), "rr205")
  \/ Pin("rr205", SET_BUS_OUTPUT(pins), "rr206")
  \/ WriteBus("rr206", Address(fr.xs, fr.xi), "rr207")
  \/ Pin("rr207", SET_MI_HIGH(pins), "rr208")
  \/ Wait("rr208", 1, "rr209")
  \/ Wait("rr209", 0, "rr210")
  \/ Pin("rr210", SET_MI_LOW(pins), "rr211")
  \/ Pin("rr211", SET_BUS_INPUT(pins), "rr212")
  \/ Pin("rr212", SET_RO_HIGH(pins), "rr213")
  \/ Wait("rr213", 1, "rr214")
  \/ Local("rr214", [fr EXCEPT !.xd[fr.xi] = read_bus, !.xi = fr.xi + 1], "rr200")
  \/ Wait("rr217", 0, "rr218")
  \/ Pin("rr218", SET_RO_LOW(pins), "rr219")
  \/ Interrupts("rr219", TRUE, "rr220")
  \/ Return("rr220")

(***************************************************************************)
(* write_ram(data, start, len): data is fr.xd, start fr.xs, len fr.xl      *)
(***************************************************************************)
write_ram ==
  \/ Wait("wr228", 1, "wr232")
  \/ Interrupts("wr232", FALSE, "wr234")
  \/ Pin("wr234", SET_BUS_OUTPUT(pins), "wr237")
  \/ Wait("wr237", 1, "wr238")
  \/ Local("wr238", [fr EXCEPT !.xi = 0], "wr239")
  \/ Local("wr239", fr, IF MoreBytes(fr.xi, fr.xl) THEN "wr242" ELSE "wr254")
  \/ Wait("wr242", 0, "wr243")
  \/ Pin("wr243", SET_RI_LOW(pins), "wr244")
  \/ WriteBus("wr244", Address(fr.xs, fr.xi), "wr245")
  \/ Pin("wr245", SET_MI_HIGH(pins), "wr246")
  \/ Wait("wr246", 1, "wr247")
  \/ Wait("wr247", 0, "wr248")
  \/ Pin("wr248", SET_MI_LOW(pins), "wr249")
  \/ WriteBus("wr249", fr.xd[fr.xi], "wr250")
  \/ Pin("wr250", SET_RI_HIGH(pins), "wr251")
  \/ Wait("wr251", 1, "wr252")
  \/ Local("wr252", [fr EXCEPT !.xi = fr.xi + 1], "wr239")
  \/ Wait("wr254", 0, "wr255")
  \/ Pin("wr255", SET_RI_LOW(pins), "wr256")
  \/ Pin("wr256", SET_BUS_INPUT(pins), "wr259")
  \/ Interrupts("wr259", TRUE, "wr260")
  \/ Return("wr260")

(***************************************************************************)
(* Transfers through the RAM/PC transfer engine: a write of a byte         *)
(* sequence followed by a read of the same address range                   *)
(***************************************************************************)
DataSeeds == {0, 250}
StartAddrs == {0, 9, 15, 250}

DataOf(seed, len) == [i \in 0..(len - 1) |-> (seed + i) % 256]

InitRam ==
  /\ mode = "monitor"
  /\ num_breakpoints = 0
  /\ breakpoints = ZeroBreakpoints
  /\ eeprom = FreshEeprom
  /\ ram = InitialRam
  /\ msg = ""
  /\ cmd = [op |-> "enter", arg |-> 0]
  /\ ncmds = 0
  /\ clk = 0
  /\ pins = MonitorPins
  /\ intr = TRUE
  /\ mar = 0
  /\ cpu = Cpu0(0)
  /\ pc = "idle"
  /\ stack = <<>>
  /\ fr = Fr0
  /\ gh = Gh0
  /\ asm = Asm0
  /\ print_serial_output = TRUE
  /\ wcs = Wcs0

\* write_ram(data, start, len) on a sequence of len bytes
CallWriteRam(start, len, seed) ==
  /\ gh.op = "none"
  /\ Call("idle",
          [fr EXCEPT !.xs = start, !.xl = len, !.xd = DataOf(seed, len)],
          [gh EXCEPT !.op = "write",
                     !.wr = [start |-> start, len |-> len, data |-> DataOf(seed, len)]],
          "wr228", "wrote")

\* read_ram(out, start, len) over the range just written, into a cleared buffer
CallReadBack ==
  Call("wrote",
       [fr EXCEPT !.xs = gh.wr.start, !.xl = gh.wr.len,
                  !.xd = [i \in 0..(gh.wr.len - 1) |-> 0]],
       [gh EXCEPT !.op = "read", !.rises = 0],
       "rr191", "done")

NextRam ==
  \/ \E start \in StartAddrs, len \in 0..MaxLen, seed \in DataSeeds :
       CallWriteRam(start, len, seed)
  \/ CallReadBack
  \/ write_ram
  \/ read_ram
  \/ ClockRise
  \/ ClockFall

SpecRam == InitRam /\ [][NextRam]_vars

(***************************************************************************)
(* Claims about the RAM transfers                                          *)
(***************************************************************************)
ReadBackDone == pc = "done" /\ gh.op = "read"

\* C1 as stated: write_ram(data, start, len) followed by read_ram(out, start, len)
\* yields out = data for every start address and every byte sequence
C1_RoundTripAnyLength == ReadBackDone => fr.xd = gh.wr.data

\* C1 as amended: write_ram(data, start, len) followed by read_ram(out, start, len)
\* yields out = data for every start address and every byte sequence of at most 16
\* bytes, the size of the target's RAM
C1_RoundTripWithinRam ==
  (ReadBackDone /\ gh.wr.len <= RamSize) => fr.xd = gh.wr.data

C1_Witness ==
  /\ ReadBackDone
  /\ gh.wr.len = RamSize
  /\ gh.wr.start = 9
  /\ fr.xd = gh.wr.data
  /\ \A a \in 0..(RamSize - 1) : ram[a] # InitialRam[a]


(***************************************************************************)
(* get_pc(): the result is fr.g_pc                                         *)
(***************************************************************************)
get_pc ==
  \/ Interrupts("gp1077", FALSE, "gp1085")
  \/ Wait("gp1085", 1, "gp1086")
  \/ Wait("gp1086", 0, "gp1090")
  \/ Pin("gp1090", SET_EE_LOW(pins), "gp1093")
  \/ Pin("gp1093", SET_CS_INPUT(pins), "gp1096")
  \/ Wait("gp1096", 1, "gp1097")
  \/ Local("gp1097", [fr EXCEPT !.g_pc = read_bus], "gp1100")
  \/ Pin("gp1100", SET_MI_LOW(pins), "gp1101")
  \/ Pin("gp1101", SET_RO_LOW(pins), "gp1102")
  \/ Pin("gp1102", SET_RI_LOW(pins), "gp1103")
  \/ Pin("gp1103", SET_CS_OUTPUT(pins), "gp1106")
  \/ EeHigh("gp1106", "gp1109")
  \/ Interrupts("gp1109", TRUE, "gp1111")
  \/ Return("gp1111")

(***************************************************************************)
(* run(num_instructions): the argument is fr.num, the result fr.ret        *)
(***************************************************************************)
hlt == 240

\* a byte local that has not been assigned, and the values a read of it may give
Uninit == -1
UninitBytes == {0, hlt}
ReadByte(b) == IF b = Uninit THEN UninitBytes ELSE {b}

\* if( num_instructions<0 ) num_instructions = 32767;
CapInstructions_nocap(n) == n

CapInstructions(n) == IF n < 0 THEN 32767 ELSE n

\* ++i for the byte counter i
NextCount(i) == (i + 1) % 256

\* the unrolled comparison of pc with breakpoints[0..9]
BreakpointHit(p) ==
  \E k \in 0..(MAX_BREAKPOINTS - 1) : k < num_breakpoints /\ p = breakpoints[k]

\* if( first || num_breakpoints<1 ) goto go;
SkipComparison_notfirst(first) == num_breakpoints < 1

SkipComparison(first) == first \/ num_breakpoints < 1

\* if( opcode==hlt ) break;
IsHalt_never(opcode) == FALSE

IsHalt(opcode) == opcode = hlt

\* the three-way result after the loop: rx is the level of the host-activity line
\* (PIND & 0x01) when it is read there
RunOutcome(rx, opcode) ==
  IF rx = 0 THEN "host"
  ELSE IF opcode = hlt THEN "halt"
  ELSE "normal"

\* an assignment to locals that also ends the loop or records history
LocalG(l, newfr, newgh, nxt) ==
  /\ pc = l
  /\ fr' = newfr
  /\ gh' = newgh
  /\ pc' = nxt
  /\ UNCHANGED <<bpVars, asm, ram, hwVars, stack>>

\* where the 'break' statements of the loop continue: past the restore of the
\* control lines and of the interrupts, or at the first statement after the loop
BreakTarget_skiprestore == "ru1251"

BreakTarget == "ru1237"

run ==
  \/ LocalG("ru1154", [fr EXCEPT !.first = TRUE, !.i = 0, !.opcode = Uninit],
            [gh EXCEPT !.exit = "none", !.outcome = "none", !.iters = 0,
                       !.fetched = -1],
            "ru1162")
  \/ Local("ru1162", [fr EXCEPT !.num = CapInstructions(fr.num)], "ru1165")
  \/ Interrupts("ru1165", FALSE, "ru1173")
  \/ Wait("ru1173", 1, "ru1174")
  \/ Wait("ru1174", 0, "ru1178")
  \/ Pin("ru1178", SET_EE_LOW(pins), "ru1181")
  \/ Pin("ru1181", SET_CS_INPUT(pins), "ru1183")
  \/ LocalG("ru1183", [fr EXCEPT !.i = NextCount(fr.i)],
            IF NextCount(fr.i) <= fr.num
            THEN [gh EXCEPT !.iters = SatInc(gh.iters)]
            ELSE [gh EXCEPT !.exit = "limit"],
            IF NextCount(fr.i) <= fr.num THEN "ru1186" ELSE "ru1237")
  \/ Wait("ru1186", 1, "ru1187")
  \/ Local("ru1187", [fr EXCEPT !.rpc = read_bus], "ru1191")
  \/ LocalG("ru1191", fr,
            IF ~SkipComparison(fr.first) /\ BreakpointHit(fr.rpc)
            THEN [gh EXCEPT !.exit = "breakpoint"] ELSE gh,
            IF ~SkipComparison(fr.first) /\ BreakpointHit(fr.rpc)
            THEN BreakTarget ELSE "ru1215")
  \/ \E rx \in {0, 1} :
       LocalG("ru1215", fr,
              IF rx = 0 THEN [gh EXCEPT !.exit = "host", !.host = TRUE] ELSE gh,
              IF rx = 0 THEN BreakTarget ELSE "ru1217")
  \/ Wait("ru1217", 0, "ru1220")
  \/ Wait("ru1220", 1, "ru1221")
  \/ Local("ru1221", [fr EXCEPT !.opcode = read_bus], "ru1222")
  \/ LocalG("ru1222",
            IF IsHalt(fr.opcode) THEN fr
            ELSE [fr EXCEPT !.cycles = CycleTable[HighNibble(fr.opcode)]],
            IF IsHalt(fr.opcode) THEN [gh EXCEPT !.exit = "halt"] ELSE gh,
            IF IsHalt(fr.opcode) THEN BreakTarget ELSE "ru1224")
  \/ Wait("ru1224", 0, "ru1226")
  \/ Local("ru1226", [fr EXCEPT !.j = 0], "ru1227")
  \/ Local("ru1227", fr, IF fr.j < fr.cycles THEN "ru1229" ELSE "ru1233")
  \/ Wait("ru1229", 1, "ru1230")
  \/ Wait("ru1230", 0, "ru1231")
  \/ Local("ru1231", [fr EXCEPT !.j = fr.j + 1], "ru1227")
  \/ Local("ru1233", [fr EXCEPT !.first = FALSE], "ru1183")
  \/ Pin("ru1237", SET_MI_LOW(pins), "ru1238")
  \/ Pin("ru1238", SET_RO_LOW(pins), "ru1239")
  \/ Pin("ru1239", SET_RI_LOW(pins), "ru1240")
  \/ Pin("ru1240", SET_CS_OUTPUT(pins), "ru1243")
  \/ EeHigh("ru1243", "ru1246")
  \/ Interrupts("ru1246", TRUE, "ru1251")
  \/ \E rx \in {0, 1} : \E op \in ReadByte(fr.opcode) :
       LocalG("ru1251", [fr EXCEPT !.ret = (RunOutcome(rx, op) = "normal")],
              [gh EXCEPT !.outcome = RunOutcome(rx, op),
                         !.host = gh.host \/ rx = 0],
              "ru1264")
  \/ Return("ru1264")

(***************************************************************************)
(* set_pc(pc): the argument is fr.sv                                       *)
(***************************************************************************)
\* the opcode of the descriptor whose mnemonic is JMP
JmpOpcode ==
  opcodes_4bit[CHOOSE k \in 1..Len(opcodes_4bit) :
                 SubSeq(opcodes_4bit[k].mnemonic, 1, 3) = <<"J", "M", "P">>].opcode

\* jmp[0] = opcodes[i].opcode | (pc & 0x0f)
JmpTo_nomask(v) == JmpOpcode

JmpTo(v) == JmpOpcode + LowNibble(v)

\* the bytes written back by the last write_ram of set_pc
RestoreData_jmp(f) == f.jmp

RestoreData(f) == f.data

set_pc ==
  \/ Call("sp1116", fr, gh, "gp1077", "sp1117")
  \/ Local("sp1117", [fr EXCEPT !.cur = fr.g_pc], "sp1120")
  \/ Local("sp1120", fr, IF fr.cur = fr.sv THEN "sp1149" ELSE "sp1134")
  \/ Local("sp1134", [fr EXCEPT !.jmp = [k \in {0} |-> JmpTo(fr.sv)]], "sp1139")
  \/ Call("sp1139", [fr EXCEPT !.xs = fr.cur, !.xl = 1, !.xd = [k \in {0} |-> Uninit]],
          gh, "rr191", "sp1140")
  \/ Local("sp1140", [fr EXCEPT !.data = fr.xd], "sp1142")
  \/ Call("sp1142", [fr EXCEPT !.xs = fr.cur, !.xl = 1, !.xd = fr.jmp],
          gh, "wr228", "sp1145")
  \/ Call("sp1145", [fr EXCEPT !.num = 1], gh, "ru1154", "sp1148")
  \/ Call("sp1148", [fr EXCEPT !.xs = fr.cur, !.xl = 1, !.xd = RestoreData(fr)],
          gh, "wr228", "sp1149")
  \/ Return("sp1149")

(***************************************************************************)
(* Monitor commands 'R a' and 'r [n]' on a target holding a program        *)
(***************************************************************************)
Program(bytes) == [a \in 0..(RamSize - 1) |-> bytes[a + 1]]

\* 0: LDI 5, OUT, JMP 4, NOP, 4: LDI 5, OUT, HLT, STA 15, ADD 14, JC 0, JZ 3,
\* DEC 1, JMP 0, a halt with a non-zero low nibble, data
ProgA == Program(<<85, 224, 100, 0, 85, 224, 240, 79, 46, 112, 131, 177, 96, 243, 1, 255>>)

\* 16 NOPs
ProgB == Program(<<0, 0, 0, 0, 0, 0, 0, 0, 0, 0, 0, 0, 0, 0, 0, 0>>)

Programs == {ProgA, ProgB}

\* breakpoint sets as 'b' commands in this order leave them
BpOrder == <<3, 7, 1, 12, 9, 0, 5, 14, 2, 10>>
BpCounts == {0, 5, MAX_BREAKPOINTS}
BpArray(k) == [i \in 0..(MAX_BREAKPOINTS - 1) |-> IF i < k THEN BpOrder[i + 1] ELSE 0]

RunArgs == 0..MaxRunN

InitTarget(progs, counts, pcs) ==
  /\ mode = "monitor"
  /\ \E k \in counts : num_breakpoints = k /\ breakpoints = BpArray(k)
  /\ eeprom = FreshEeprom
  /\ ram \in progs
  /\ msg = ""
  /\ cmd = [op |-> "enter", arg |-> 0]
  /\ ncmds = 0
  /\ clk = 0
  /\ pins = MonitorPins
  /\ intr = TRUE
  /\ mar = 0
  /\ \E p0 \in pcs : cpu = Cpu0(p0)
  /\ pc = "idle"
  /\ stack = <<>>
  /\ fr = Fr0
  /\ gh = Gh0
  /\ asm = Asm0
  /\ print_serial_output = TRUE
  /\ wcs = Wcs0

\* command 'R a': set_pc(a); the next command reads the program counter
CmdSetPc(v) ==
  /\ gh.op = "none"
  /\ Call("idle", [fr EXCEPT !.sv = v],
          [gh EXCEPT !.op = "set_pc", !.arg = v, !.ram0 = ram, !.pc0 = cpu.pc],
          "sp1116", "R1527")

\* the get_pc() of the next command
NextGetPc == Call("R1527", fr, gh, "gp1077", "done")

\* command 'r n': run(n), then check_breakpoint(get_pc())
CmdRun(n) ==
  /\ gh.op = "none"
  /\ Call("idle", [fr EXCEPT !.num = n],
          [gh EXCEPT !.op = "run", !.arg = n, !.ram0 = ram, !.pc0 = cpu.pc],
          "ru1154", "r1511")

\* command 'r' without an argument: run(-1)
CmdRunUnlimited == CmdRun(-1)

CmdRunGetPc == Call("r1511", fr, gh, "gp1077", "done")

(***************************************************************************)
(* 'r n' for small n, on both programs and breakpoint sets of 0, 5 and 10  *)
(***************************************************************************)
InitRun == InitTarget(Programs, BpCounts, 0..(RamSize - 1))

NextRun ==
  \/ \E n \in RunArgs : CmdRun(n)
  \/ CmdRunGetPc
  \/ run
  \/ get_pc
  \/ ClockRise
  \/ ClockFall

SpecRun == InitRun /\ [][NextRun]_vars

(***************************************************************************)
(* 'R a' for every a and every program counter, with a full breakpoint set *)
(***************************************************************************)
InitSetPc == InitTarget(Programs, {MAX_BREAKPOINTS}, 0..(RamSize - 1))

NextSetPc ==
  \/ \E v \in 0..(RamSize - 1) : CmdSetPc(v)
  \/ NextGetPc
  \/ set_pc
  \/ run
  \/ get_pc
  \/ read_ram
  \/ write_ram
  \/ ClockRise
  \/ ClockFall

SpecSetPc == InitSetPc /\ [][NextSetPc]_vars

(***************************************************************************)
(* 'r' without an argument on a program that never halts.  The firmware    *)
(* keeps executing and the clock keeps running.                            *)
(***************************************************************************)
InitRunFair == InitTarget({ProgB}, {0, 5}, {0, 4})

NextRunFair ==
  \/ CmdRunUnlimited
  \/ CmdRunGetPc
  \/ run
  \/ get_pc
  \/ ClockRise
  \/ ClockFall

SpecRunFair == InitRunFair /\ [][NextRunFair]_vars /\ WF_vars(NextRunFair)


(***************************************************************************)
(* Properties of run                                                       *)
(***************************************************************************)
\* run is about to return
RunReturns == pc = "ru1264"

\* the statements of the loop that follow the halt test of an iteration
AfterHaltTest ==
  {"ru1224", "ru1226", "ru1227", "ru1229", "ru1230", "ru1231", "ru1233",
   "ru1183", "ru1186", "ru1187", "ru1191", "ru1215", "ru1217"}

\* C6: when the target has fetched the halt opcode during run (so no breakpoint
\* ended the loop before that fetch), the loop does not go on past its halt
\* test, and if the host line was never seen active run returns the halt
\* outcome (false, after the halt message), whatever the breakpoint set is.
C6_HaltObserved ==
  (gh.op = "run" /\ gh.fetched = hlt) =>
     /\ pc \notin AfterHaltTest
     /\ (RunReturns /\ ~gh.host) =>
           (gh.exit = "halt" /\ gh.outcome = "halt" /\ fr.ret = FALSE)

C6_Witness ==
  /\ RunReturns /\ gh.op = "run" /\ gh.fetched = hlt /\ ~gh.host
  /\ num_breakpoints = 5 /\ gh.iters = 3 /\ gh.execN = 2
  /\ gh.outcome = "halt"

\* the outcome that names the condition that ended the loop
OutcomeOf(exit) ==
  CASE exit = "host" -> "host"
    [] exit = "halt" -> "halt"
    [] OTHER -> "normal"

\* C7: when run returns, its outcome is the condition that ended the loop:
\* host-input if and only if the loop ended on host activity, halt if and only
\* if it ended on the halt opcode, normal otherwise in every case: whatever the
\* host line does between the end of the loop and the return.
C7_ReportsLoopExit == RunReturns => gh.outcome = OutcomeOf(gh.exit)

\* C8 as stated: run with a negative argument always comes to its return.
C8_UnlimitedRunReturns == (gh.op = "run" /\ gh.arg < 0) ~> (pc = "done")

\* C8: a negative argument makes the limit 32767, which the 8-bit counter never
\* exceeds: the limit never ends such a run, which returns only on a
\* breakpoint, the halt opcode or host activity.
C8_UnlimitedRunNeverEndsByLimit ==
  (gh.op = "run" /\ gh.arg < 0) =>
     /\ gh.exit # "limit"
     /\ RunReturns => gh.exit \in {"breakpoint", "halt", "host"}
     /\ pc \in AfterHaltTest => fr.num = 32767

\* the counter has wrapped from 255 to 0 and the loop goes on
C8_Witness ==
  /\ gh.op = "run" /\ gh.arg < 0 /\ fr.num = 32767
  /\ pc = "ru1186" /\ fr.i = 0 /\ ~fr.first

(***************************************************************************)
(* Properties of set_pc                                                    *)
(***************************************************************************)
\* set_pc has returned to the command
SetPcReturned == pc = "R1527" /\ gh.op = "set_pc"

\* C9: when set_pc returns, every RAM cell holds what it held when set_pc was
\* called, host activity or not; when the program counter was already the
\* value asked for, no RAM write and no instruction happened at all.
C9_RamUnchanged ==
  SetPcReturned =>
     /\ ram = gh.ram0
     /\ gh.pc0 = gh.arg => (gh.ramWrites = 0 /\ gh.execN = 0)

\* the jump was written over a different byte, executed, and written over again
C9_Witness ==
  /\ SetPcReturned /\ ram = gh.ram0
  /\ gh.ramWrites = 2 /\ gh.execN = 1
  /\ gh.ram0[gh.pc0] # JmpTo(gh.arg)

\* the next command has read the program counter after set_pc, no host activity
SetPcThenGetPc == pc = "done" /\ gh.op = "set_pc" /\ ~gh.host

\* C10 as stated: for every value and every current program counter exactly one
\* instruction, the injected jump, is executed and the next get_pc gives the value.
C10_ExactlyOneInstruction ==
  SetPcThenGetPc =>
     (gh.execN = 1 /\ gh.execLast = JmpTo(gh.arg) /\ fr.g_pc = gh.arg)

\* C10: the next get_pc gives the value asked for; if the program counter was
\* different exactly one instruction, the injected jump, was executed, and if it
\* was already that value no instruction was executed.
C10_JumpUnlessAlreadyThere ==
  SetPcThenGetPc =>
     /\ fr.g_pc = gh.arg
     /\ IF gh.pc0 = gh.arg THEN gh.execN = 0
        ELSE gh.execN = 1 /\ gh.execLast = JmpTo(gh.arg)

\* from the halt instruction at 6 to 13
C10_Witness ==
  /\ SetPcThenGetPc /\ gh.pc0 = 6 /\ gh.ram0[6] = hlt /\ gh.arg = 13
  /\ gh.execN = 1 /\ fr.g_pc = 13


(***************************************************************************)
(* Text: a line is a sequence of characters (one-character strings)        *)
(***************************************************************************)
UpperCase ==
  <<"A", "B", "C", "D", "E", "F", "G", "H", "I", "J", "K", "L", "M",
    "N", "O", "P", "Q", "R", "S", "T", "U", "V", "W", "X", "Y", "Z">>

LowerCase ==
  <<"a", "b", "c", "d", "e", "f", "g", "h", "i", "j", "k", "l", "m",
    "n", "o", "p", "q", "r", "s", "t", "u", "v", "w", "x", "y", "z">>

Digits == <<"0", "1", "2", "3", "4", "5", "6", "7", "8", "9">>

Range(seq) == {seq[k] : k \in 1..Len(seq)}

IndexOf(seq, c) == CHOOSE k \in 1..Len(seq) : seq[k] = c

isDigit(c) == c \in Range(Digits)
isAlpha(c) == c \in Range(UpperCase) \cup Range(LowerCase)
isAlphaNumeric(c) == isAlpha(c) \/ isDigit(c)
isSpace(c) == c = " "

\* the letter a case-insensitive comparison compares
ToUpper(c) == IF c \in Range(LowerCase) THEN UpperCase[IndexOf(LowerCase, c)] ELSE c

\* the terminating 0 the assembler puts behind a line
NUL == "NUL"

\* buffer[i] for a buffer of Len(buf) characters followed by the terminator
At(buf, i) == IF i < Len(buf) THEN buf[i + 1] ELSE NUL

\* while( i<len && isSpace(buffer[i]) ) i++;
SkipSpaces(buf, i) ==
  CHOOSE k \in i..Len(buf) :
    /\ k = Len(buf) \/ ~isSpace(At(buf, k))
    /\ \A m \in i..(k - 1) : isSpace(At(buf, m))

\* while( i<len && isAlphaNumeric(buffer[i]) ) i++;
SkipAlphaNumeric(buf, i) ==
  CHOOSE k \in i..Len(buf) :
    /\ k = Len(buf) \/ ~isAlphaNumeric(At(buf, k))
    /\ \A m \in i..(k - 1) : isAlphaNumeric(At(buf, m))

\* the characters a message echoes: while( i<len && !isSpace(buffer[i]) ) ...
WordAt(buf, i) ==
  LET e == CHOOSE k \in i..Len(buf) :
             /\ k = Len(buf) \/ isSpace(At(buf, k))
             /\ \A m \in i..(k - 1) : ~isSpace(At(buf, m))
  IN SubSeq(buf, i + 1, e)

hex_char_to_byte(c) ==
  IF isDigit(c) THEN IndexOf(Digits, c) - 1
  ELSE IF c \in Range(SubSeq(LowerCase, 1, 6)) THEN 10 + IndexOf(LowerCase, c) - 1
  ELSE IF c \in Range(SubSeq(UpperCase, 1, 6)) THEN 10 + IndexOf(UpperCase, c) - 1
  ELSE -1

\* sprintf(buf, "%02x", v) for a byte v
dec2hex_onedigit(v) ==
  << (Digits \o SubSeq(LowerCase, 1, 6))[(v % 16) + 1] >>

dec2hex(v) ==
  << (Digits \o SubSeq(LowerCase, 1, 6))[((v % 256) \div 16) + 1],
     (Digits \o SubSeq(LowerCase, 1, 6))[(v % 16) + 1] >>

\* parse_arg(buffer, len, i, value, force_hex): the result, the new i and the new value
parse_arg_hex(buf, i, value, force_hex) ==
  LET len == Len(buf)
      i1 == IF At(buf, i) = "$" THEN i + 1 ELSE i
      b1 == hex_char_to_byte(At(buf, i1))
      b2 == hex_char_to_byte(At(buf, i1 + 1))
  IN IF i1 < len /\ b1 >= 0
     THEN IF i1 + 1 < len /\ b2 >= 0
          THEN [res |-> TRUE, i |-> i1 + 2, value |-> (b1 * 16 + b2) % 256]
          ELSE [res |-> TRUE, i |-> i1 + 1, value |-> b1]
     ELSE [res |-> FALSE, i |-> i1, value |-> value]

parse_arg(buf, i, value, force_hex) ==
  LET len == Len(buf)
      d(k) == hex_char_to_byte(At(buf, k))
      dig(k) == k < len /\ isDigit(At(buf, k))
  IN IF (i < len /\ At(buf, i) = "$") \/ force_hex
     THEN parse_arg_hex(buf, i, value, force_hex)
     ELSE IF dig(i)
     THEN IF dig(i + 1)
          THEN IF dig(i + 2)
               THEN [res |-> TRUE, i |-> i + 3,
                     value |-> (((d(i) * 10 + d(i + 1)) % 256) * 10 + d(i + 2)) % 256]
               ELSE [res |-> TRUE, i |-> i + 2, value |-> d(i) * 10 + d(i + 1)]
          ELSE [res |-> TRUE, i |-> i + 1, value |-> d(i)]
     ELSE [res |-> FALSE, i |-> i, value |-> value]

(***************************************************************************)
(* Labels                                                                  *)
(***************************************************************************)
ASM_MAX_LABELS == 16
ASM_MAX_LABEL_FORWARD_REF == 16

\* the 3 characters find_label compares: lbl[0..llen-1] padded with spaces
LabelName(buf, start, llen) ==
  << At(buf, start),
     IF llen > 1 THEN At(buf, start + 1) ELSE " ",
     IF llen > 2 THEN At(buf, start + 2) ELSE " " >>

\* line 655: num_labels<ASM_MAX_LABELS
LabelRoom_always(labels) == TRUE

LabelRoom(labels) == Len(labels) < ASM_MAX_LABELS

\* find_label: the index (1-based) of the entry, 0 for NULL, and the table
\* after it; a label not found is appended while there is room
find_label(labels, name) ==
  IF \E k \in 1..Len(labels) : labels[k].label = name
  THEN [res |-> CHOOSE k \in 1..Len(labels) :
                  /\ labels[k].label = name
                  /\ \A m \in (k + 1)..Len(labels) : labels[m].label # name,
        labels |-> labels]
  ELSE IF LabelRoom(labels)
  THEN [res |-> Len(labels) + 1,
        labels |-> Append(labels, [label |-> name, loc |-> -1, forward |-> <<>>])]
  ELSE [res |-> 0, labels |-> labels]


(***************************************************************************)
(* assemble: one line.  st is the record (a, addr, labels), r the RAM.     *)
(***************************************************************************)
\* b = (b & 0xF0) | ((a+(b&0x0F)) & 0x0F)
PatchByte(b, a) == HighNibble(b) + ((a + LowNibble(b)) % 16)

OneByte(b) == [k \in {0} |-> b]

\* one step of the loop over lbl->forward: the byte b read at the site is
\* patched and written back
PatchStep(r, site, b, a) ==
  [ram |-> write_ram_result(r, OneByte(PatchByte(b, a)), site, 1),
   ev |-> [site |-> site, before |-> b, after |-> PatchByte(b, a)]]

\* the loop over lbl->forward[0..forward_count-1]: the RAM after it, and for
\* each step the site with the byte read and the byte written
RECURSIVE PatchForward(_, _, _, _, _)
PatchForward(r, forward, a, j, ev) ==
  IF j > Len(forward) THEN [ram |-> r, ev |-> ev]
  ELSE LET p == PatchStep(r, forward[j], read_ram_result(r, forward[j], 1)[0], a)
       IN PatchForward(p.ram, forward, a, j + 1, Append(ev, p.ev))

LabelResult(ok, i, labels, r, out, ev) ==
  [ok |-> ok, i |-> i, labels |-> labels, ram |-> r, out |-> out, ev |-> ev]

\* the label is new or only referenced so far: patch, clear the list, set loc
DefineLabel(st, i, name, f, p) ==
  LabelResult(TRUE, i,
              [f.labels EXCEPT ![f.res].forward = <<>>, ![f.res].loc = st.a],
              p.ram, <<>>,
              [k \in 1..Len(p.ev) |->
                 [label |-> name, site |-> p.ev[k].site, before |-> p.ev[k].before,
                  after |-> p.ev[k].after, loc |-> st.a]])

LabelFound(st, r, i, name, f) ==
  IF f.res = 0
  THEN LabelResult(FALSE, i, f.labels, r, <<"Too many labels.">>, <<>>)
  ELSE IF f.labels[f.res].loc >= 0
  THEN LabelResult(FALSE, i, f.labels, r, <<"Duplicate label definition.">>, <<>>)
  ELSE DefineLabel(st, i, name, f,
                   PatchForward(r, f.labels[f.res].forward, st.a, 1, <<>>))

LabelNamed(st, r, i, name) == LabelFound(st, r, i, name, find_label(st.labels, name))

LabelUpTo(st, r, buf, i) == LabelNamed(st, r, i, LabelName(buf, 0, i))

\* the label at the start of the line
LabelStage(st, r, buf) ==
  IF isAlpha(At(buf, 0))
  THEN LabelUpTo(st, r, buf, SkipAlphaNumeric(buf, 0))
  ELSE IF ~isSpace(At(buf, 0))
  THEN LabelResult(FALSE, Len(WordAt(buf, 0)), st.labels, r, <<"Invalid label: ">>, <<>>)
  ELSE LabelResult(TRUE, 0, st.labels, r, <<>>, <<>>)

\* addval = -addval; arg += addval (bytes)
AddOffset(arg, issub, addval) ==
  (arg + (IF issub THEN (256 - addval) % 256 ELSE addval)) % 256

ArgResult(ok, i, arg, labels, out, ref) ==
  [ok |-> ok, i |-> i, arg |-> arg, labels |-> labels, out |-> out, ref |-> ref]

\* what is on record about a label reference
RefOf(name, forward, pm, issub, k) ==
  [label |-> name, forward |-> forward, pm |-> pm, issub |-> issub, k |-> k]

\* '+' or '-' behind the label: la is the result for the label alone, i3 the
\* position behind the operator and spaces, pa the operand parsed there
OffsetArg(buf, la, name, issub, i3, pa) ==
  IF i3 >= Len(buf)
  THEN ArgResult(FALSE, i3, la.arg, la.labels,
                 la.out \o <<"Expected argument to '+/-' operator">>,
                 <<RefOf(name, la.forward, TRUE, issub, 0)>>)
  ELSE IF ~pa.res
  THEN ArgResult(FALSE, pa.i, la.arg, la.labels,
                 la.out \o <<"Invalid argument to '+/-' operator: ">>,
                 <<RefOf(name, la.forward, TRUE, issub, 0)>>)
  ELSE ArgResult(la.ok, pa.i, AddOffset(la.arg, issub, pa.value), la.labels, la.out,
                 <<RefOf(name, la.forward, TRUE, issub, pa.value)>>)

OffsetAt(buf, la, name, issub, i3) ==
  OffsetArg(buf, la, name, issub, i3, parse_arg(buf, i3, 0, FALSE))

\* the label alone is done (la); e is the position behind its name
LabelArgDone(buf, e, name, la) ==
  IF At(buf, e) \in {"+", "-"}
  THEN OffsetAt(buf, la, name, At(buf, e) = "-", SkipSpaces(buf, e + 1))
  ELSE ArgResult(la.ok, e, la.arg, la.labels, la.out,
                 <<RefOf(name, la.forward, FALSE, FALSE, 0)>>)

\* the label of a reference: f is what find_label gave
LabelArgFound(a, f) ==
  IF f.res = 0
  THEN [ok |-> FALSE, arg |-> 0, labels |-> f.labels, forward |-> FALSE,
        out |-> <<"Too many labels.">>]
  ELSE IF f.labels[f.res].loc >= 0
  THEN [ok |-> TRUE, arg |-> f.labels[f.res].loc % 256, labels |-> f.labels,
        forward |-> FALSE, out |-> <<>>]
  ELSE IF Len(f.labels[f.res].forward) < ASM_MAX_LABEL_FORWARD_REF
  THEN [ok |-> TRUE, arg |-> 0,
        labels |-> [f.labels EXCEPT ![f.res].forward = Append(@, a % 256)],
        forward |-> TRUE, out |-> <<>>]
  ELSE [ok |-> FALSE, arg |-> 0, labels |-> f.labels, forward |-> FALSE,
        out |-> <<"Too many forward references to label.">>]

LabelArgNamed(labels, a, buf, e, name) ==
  LabelArgDone(buf, e, name, LabelArgFound(a, find_label(labels, name)))

LabelArg(labels, a, buf, i, e) == LabelArgNamed(labels, a, buf, e, LabelName(buf, i, e - i))

NumberArg(labels, pa) ==
  IF pa.res
  THEN ArgResult(TRUE, pa.i, pa.value, labels, <<>>, <<>>)
  ELSE ArgResult(FALSE, pa.i, 0, labels, <<"Invalid argument: ">>, <<>>)

\* the argument of a mnemonic that takes one, starting at buffer[i], i < len
ArgStage(labels, a, buf, i) ==
  IF isAlpha(At(buf, i))
  THEN LabelArg(labels, a, buf, i, SkipAlphaNumeric(buf, i))
  ELSE NumberArg(labels, parse_arg(buf, i, 0, FALSE))

\* strncasecmp(opcodes[j].mnemonic, buffer+mstart, 3)==0
MnemonicMatches(j, buf, mstart) ==
  \A k \in 0..2 : ToUpper(opcodes_4bit[j].mnemonic[k + 1]) = ToUpper(At(buf, mstart + k))

MnemonicResult(ok, i, idx, arg, labels, out, ref) ==
  [ok |-> ok, i |-> i, idx |-> idx, arg |-> arg, labels |-> labels, out |-> out,
   ref |-> ref]

WithArg(j, g) == MnemonicResult(g.ok, g.i, j, g.arg, g.labels, g.out, g.ref)

\* the descriptors that match the 3 characters and the '#', and of these the
\* first that has no argument or finds one at buffer[i2]
MnemonicFound(labels, a, buf, mstart, i2, cand, found) ==
  IF found = {}
  THEN MnemonicResult(FALSE, i2, 0, 0, labels,
                      IF cand # {} THEN <<"Expected argument">>
                      ELSE <<"Invalid mnemonic: ">>, <<>>)
  ELSE IF ~opcodes_4bit[CHOOSE j \in found : \A m \in found : j <= m].has_arg
  THEN MnemonicResult(TRUE, i2, CHOOSE j \in found : \A m \in found : j <= m, 0,
                      labels, <<>>, <<>>)
  ELSE WithArg(CHOOSE j \in found : \A m \in found : j <= m,
               ArgStage(labels, a, buf, i2))

MnemonicCand(labels, a, buf, mstart, i2, cand) ==
  MnemonicFound(labels, a, buf, mstart, i2, cand,
                {j \in cand : ~opcodes_4bit[j].has_arg \/ i2 < Len(buf)})

\* i1 is the position behind the 3 characters and the spaces after them
MnemonicAt(labels, a, buf, mstart, i1, isimmediate) ==
  MnemonicCand(labels, a, buf, mstart, IF isimmediate THEN i1 + 1 ELSE i1,
               {j \in 1..Len(opcodes_4bit) :
                  /\ MnemonicMatches(j, buf, mstart)
                  /\ isimmediate = (opcodes_4bit[j].mnemonic[5] = "#")})

MnemonicFrom(labels, a, buf, mstart, i1) ==
  MnemonicAt(labels, a, buf, mstart, i1, i1 < Len(buf) /\ At(buf, i1) = "#")

MnemonicStart(labels, a, buf, mstart) ==
  IF mstart >= Len(buf)
  THEN MnemonicResult(TRUE, mstart, 0, 0, labels, <<>>, <<>>)
  ELSE IF mstart + 3 > Len(buf)
  THEN MnemonicResult(FALSE, mstart, 0, 0, labels, <<"Invalid mnemonic: ">>, <<>>)
  ELSE MnemonicFrom(labels, a, buf, mstart, SkipSpaces(buf, mstart + 3))

\* the mnemonic and its argument, from buffer[i0]; idx is the descriptor found
\* (1-based), 0 when the line has none
MnemonicStage(labels, a, buf, i0) == MnemonicStart(labels, a, buf, SkipSpaces(buf, i0))

\* line 991: opcode |= arg & 0x0f
EmitByte_noarg(opcode, arg) == opcode

EmitByte(opcode, arg) == opcode + LowNibble(arg)

\* the byte the line writes at a, or the new origin
EmitStage(st, l, m, opcode) ==
  [ok |-> m.ok,
   idx |-> m.idx,
   out |-> l.out \o m.out,
   labels |-> m.labels,
   a |-> IF opcode = 254 THEN m.arg ELSE st.a + 1,
   addr |-> IF opcode = 254 THEN m.arg ELSE st.addr,
   ram |-> IF opcode = 254 THEN l.ram
           ELSE IF opcode = 255 THEN write_ram_result(l.ram, OneByte(m.arg), st.a, 1)
           ELSE write_ram_result(l.ram, OneByte(EmitByte(opcode, m.arg)), st.a, 1),
   ev |-> l.ev,
   ref |-> [k \in 1..Len(m.ref) |-> [site |-> st.a, ok |-> TRUE, n |-> st.nlines + 1,
                                    idx |-> m.idx, ref |-> m.ref[k]]],
   wrote |-> opcode # 254]

\* the line writes nothing
NoEmit(st, l, m) ==
  [ok |-> m.ok,
   idx |-> m.idx,
   out |-> l.out \o m.out,
   labels |-> m.labels,
   a |-> st.a,
   addr |-> st.addr,
   ram |-> l.ram,
   ev |-> l.ev,
   ref |-> [k \in 1..Len(m.ref) |-> [site |-> st.a, ok |-> m.ok, n |-> st.nlines + 1,
                                    idx |-> m.idx, ref |-> m.ref[k]]],
   wrote |-> FALSE]

AfterMnemonic(st, l, m) ==
  IF m.ok /\ m.idx > 0
  THEN EmitStage(st, l, m, opcodes_4bit[m.idx].opcode)
  ELSE NoEmit(st, l, m)

AfterLabel(st, buf, l) ==
  IF l.ok
  THEN AfterMnemonic(st, l, MnemonicStage(l.labels, st.a, buf, l.i))
  ELSE AfterMnemonic(st, l, MnemonicResult(FALSE, l.i, 0, 0, l.labels, <<>>, <<>>))

AssembleBuffer(st, r, buf) == AfterLabel(st, buf, LabelStage(st, r, buf))

\* everything assemble does with one line that ends with a carriage return: the
\* write address, origin, label table and RAM after it, what it printed, the
\* patches made and the label reference parsed
AssembleLine(st, r, line) == AssembleBuffer(st, r, line \o <<" ">>)

\* the name as the report writes it: the characters before the padding
PrintedLabel(name) == SelectSeq(name, LAMBDA c : c # " ")

\* the report after the last line: whether it is printed at all, and the names in it
UndefinedLabels(st) ==
  [printed |-> st.a > st.addr,
   names |-> IF st.a > st.addr
             THEN LET undef == SelectSeq(st.labels, LAMBDA e : e.loc < 0)
                  IN [k \in 1..Len(undef) |-> PrintedLabel(undef[k].label)]
             ELSE <<>>]

\* what disassemble prints behind address and byte for the byte b: the
\* mnemonic, and the low nibble if the descriptor has an argument
\* opcodes_4bit[b>>4], the first descriptor being number 1 here
DescriptorIndex_skip2(b) == (b \div 16) + 3

DescriptorIndex(b) == (b \div 16) + 1

disassemble_text(b) ==
  opcodes_4bit[DescriptorIndex(b)].mnemonic
    \o (IF opcodes_4bit[DescriptorIndex(b)].has_arg THEN dec2hex(b % 16) ELSE <<>>)

(***************************************************************************)
(* Monitor commands 'a' (assemble) and 'd' (disassemble)                   *)
(***************************************************************************)
AsmFrame == UNCHANGED <<bpVars, hwVars, fwVars>>

\* line 711: num_labels = 0; the entries of the earlier pass are out of reach
ResetLabels_keep(labels) == labels

ResetLabels(labels) == <<>>

\* command 'a s': assemble(s) starts with an empty label table
CmdAssemble(s) ==
  /\ mode = "monitor" /\ pc = "idle" /\ ~asm.active
  /\ asm' = [asm EXCEPT !.active = TRUE, !.a = s, !.addr = s,
                        !.labels = ResetLabels(asm.labels)]
  /\ UNCHANGED ram
  /\ AsmFrame

\* the state after a line, from what AssembleLine gave for it
ApplyLine(res, line) ==
  /\ ram' = res.ram
  /\ asm' = [asm EXCEPT !.a = res.a, !.addr = res.addr, !.labels = res.labels,
                        !.nlines = asm.nlines + 1, !.line = line,
                        !.ok = res.ok, !.out = res.out, !.idx = res.idx,
                        !.before = [a |-> asm.a, addr |-> asm.addr,
                                    labels |-> asm.labels, ram |-> ram,
                                    writer |-> asm.writer],
                        !.patches = asm.patches \o res.ev,
                        !.refs = asm.refs \o res.ref,
                        !.src = Append(asm.src, line),
                        !.writer = IF res.wrote
                                   THEN [asm.writer EXCEPT
                                           ![RamCell(Address(asm.a, 0))] = asm.nlines + 1]
                                   ELSE asm.writer]

\* one line of input, ended by a carriage return
AsmLine(line) ==
  /\ asm.active
  /\ ApplyLine(AssembleLine(asm, ram, line), line)
  /\ AsmFrame

\* ESC or Ctrl-Z ends the assembly
AsmEnd ==
  /\ asm.active
  /\ asm' = [asm EXCEPT !.active = FALSE, !.report = UndefinedLabels(asm)]
  /\ UNCHANGED ram
  /\ AsmFrame

\* command 'd a a': disassemble the byte at a
CmdDisassemble(a) ==
  /\ mode = "monitor" /\ pc = "idle" /\ ~asm.active
  /\ asm.disa = -1
  /\ asm' = [asm EXCEPT !.disa = a,
                        !.text = disassemble_text(read_ram_result(ram, a, 1)[0])]
  /\ UNCHANGED ram
  /\ AsmFrame


(***************************************************************************)
(* 'a 0' with up to MaxLines lines, then 'd' of one address                *)
(***************************************************************************)
AsmLines ==
  {
    <<" ", "J", "M", "P", " ", "L">>,   \* a reference
    <<" ", "J", "M", "P", " ", "L", "+">>,   \* a reference with an operator and no operand
    <<" ", "J", "M", "P", " ", "L", "+", "1">>,   \* a reference with an offset
    <<" ", "L", "D", "A", " ", "L", "-", "1">>,
    <<"L", " ", "N", "O", "P">>,   \* a definition with an instruction
    <<"L", " ", "X", "Y", "Z">>,   \* a definition with a bad mnemonic
    <<" ", ".", "O", "R", " ", "0">>,   \* set the origin
    <<" ", "L", "D", "I", " ", "5">>,
    <<" ", "O", "U", "T">>,
    <<"L", "O", "O", "P">>,   \* a definition alone
    <<" ", "J", "M", "P", " ", "L", "O", "O", "P">>
  }

InitAsm == InitTarget({InitialRam}, {0}, {0})

NextAsm ==
  \/ asm.nlines = 0 /\ asm.disa = -1 /\ CmdAssemble(0)
  \/ \E line \in AsmLines : asm.nlines < MaxLines /\ AsmLine(line)
  \/ AsmEnd
  \/ \E a \in {0, 1} : asm.nlines > 0 /\ CmdDisassemble(a)

SpecAsm == InitAsm /\ [][NextAsm]_vars

(***************************************************************************)
(* 'd' of a byte, then 'a' with the text it printed                        *)
(***************************************************************************)
DisAddrs == {0, 9}

InitDis ==
  InitTarget({[InitialRam EXCEPT ![a] = b] : a \in DisAddrs, b \in Byte}, {0}, {0})

NextDis ==
  \/ \E a \in DisAddrs : CmdDisassemble(a)
  \/ asm.disa # -1 /\ asm.nlines = 0 /\ CmdAssemble(asm.disa)
  \/ asm.nlines = 0 /\ AsmLine(<<" ">> \o asm.text)
  \/ AsmEnd

SpecDis == InitDis /\ [][NextDis]_vars



(***************************************************************************)
(* Properties of the assembler                                             *)
(***************************************************************************)
\* a line has just been assembled
AsmLineDone == asm.active /\ asm.nlines > 0

\* the assembly has ended after at least one line
AsmEnded == ~asm.active /\ asm.nlines > 0

\* the resolved address of a label in the table, -1 when it has none
LabelLoc(name) ==
  IF \E k \in 1..Len(asm.labels) : asm.labels[k].label = name
  THEN asm.labels[CHOOSE k \in 1..Len(asm.labels) : asm.labels[k].label = name].loc
  ELSE -1

\* every reference recorded for this label at this site was without '+' or '-'
PlainSite(name, site) ==
  \A k \in 1..Len(asm.refs) :
    (asm.refs[k].ref.label = name /\ asm.refs[k].site = site) => ~asm.refs[k].ref.pm

\* C11: for every label definition, no site is patched twice, a patch keeps the
\* high nibble and (for references without offset) leaves the label's address
\* mod 16 in the low nibble, and a defined label has no forward reference left.
C11_PatchedOnceWithAddress ==
  /\ \A i, j \in 1..Len(asm.patches) :
       (i < j /\ asm.patches[i].label = asm.patches[j].label)
         => RamCell(asm.patches[i].site) # RamCell(asm.patches[j].site)
  /\ \A i \in 1..Len(asm.patches) :
       /\ HighNibble(asm.patches[i].after) = HighNibble(asm.patches[i].before)
       /\ PlainSite(asm.patches[i].label, asm.patches[i].site)
            => LowNibble(asm.patches[i].after) = asm.patches[i].loc % 16
  /\ \A k \in 1..Len(asm.labels) :
       asm.labels[k].loc >= 0 => asm.labels[k].forward = <<>>

\* C12: when the assembly ends, every label referenced by an accepted line and
\* never defined is named in the report, and no defined label is named.
C12_UndefinedReported ==
  AsmEnded =>
    /\ \A k \in 1..Len(asm.refs) :
         (asm.refs[k].ok /\ LabelLoc(asm.refs[k].ref.label) < 0)
           => PrintedLabel(asm.refs[k].ref.label) \in Range(asm.report.names)
    /\ \A k \in 1..Len(asm.labels) :
         asm.labels[k].loc >= 0
           => PrintedLabel(asm.labels[k].label) \notin Range(asm.report.names)

\* C13: a rejected line leaves the write address, the origin, the RAM and the
\* label table as they were before it.
C13_RejectedLineNoEffect ==
  (AsmLineDone /\ ~asm.ok) =>
    /\ asm.a = asm.before.a
    /\ asm.addr = asm.before.addr
    /\ ram = asm.before.ram
    /\ asm.labels = asm.before.labels

LineLDI5 == <<" ", "L", "D", "I", " ", "5">>
LineOUT == <<" ", "O", "U", "T">>

\* the two lines LDI 5 and OUT have been assembled from address 0
AssembledLdiOut == AsmEnded /\ asm.src = <<LineLDI5, LineOUT>>

RefOffset(r) == IF r.ref.pm THEN (IF r.ref.issub THEN 0 - r.ref.k ELSE r.ref.k) ELSE 0

\* C15: when the assembly has ended, every accepted instruction with a label
\* argument whose label is defined, and whose byte no later line has written
\* over, has the operand nibble (address + offset) mod 16; LOOP then JMP LOOP
\* gives low nibble 0 and an empty report.
C15_LabelOperand ==
  AsmEnded =>
    /\ \A k \in 1..Len(asm.refs) :
         LET r == asm.refs[k]
         IN (/\ r.ok /\ r.idx >= 1 /\ r.idx <= 16
             /\ LabelLoc(r.ref.label) >= 0
             /\ asm.writer[RamCell(r.site)] = r.n)
            => LowNibble(ram[RamCell(r.site)])
                 = (LabelLoc(r.ref.label) + RefOffset(r)) % 16
    /\ asm.src = << <<"L", "O", "O", "P">>, <<" ", "J", "M", "P", " ", "L", "O", "O", "P">> >>
         => (LowNibble(ram[0]) = 0 /\ asm.report.names = <<>>)


(***************************************************************************)
(* Properties of the disassembler                                          *)
(***************************************************************************)
\* one byte has been disassembled and nothing assembled since
Disassembled == asm.disa # -1 /\ asm.nlines = 0

\* the printed text has been assembled again at the address of the byte
Reassembled == asm.disa # -1 /\ AsmLineDone /\ asm.nlines = 1

\* C16: for every byte whose mnemonic takes an argument, assembling the printed
\* mnemonic and argument at the same address writes the byte back.
C16_DecodeEncodeInverse ==
  (Reassembled /\ opcodes_4bit[DescriptorIndex(asm.before.ram[asm.disa])].has_arg)
    => ram[asm.disa] = asm.before.ram[asm.disa]

\* C17: for every byte the text printed is the mnemonic of exactly one of the
\* first 16 descriptors, whose opcode has the byte's high nibble and is not a
\* pseudo-opcode, followed by the low nibble (as dec2hex prints it) exactly
\* when that descriptor has an argument.
C17_DisassemblerTotal ==
  Disassembled =>
    \E k \in 1..16 :
      /\ SubSeq(asm.text, 1, 5) = opcodes_4bit[k].mnemonic
      /\ HighNibble(opcodes_4bit[k].opcode) = HighNibble(ram[asm.disa])
      /\ opcodes_4bit[k].opcode \notin {254, 255}
      /\ opcodes_4bit[k].mnemonic[1] # "."
      /\ IF opcodes_4bit[k].has_arg
         THEN SubSeq(asm.text, 6, Len(asm.text)) = dec2hex(LowNibble(ram[asm.disa]))
         ELSE Len(asm.text) = 5

\* the byte 0xFF, the opcode of the define-byte pseudo-descriptor, prints as HLT
C17_Witness ==
  /\ Disassembled /\ ram[asm.disa] = 255
  /\ asm.text = <<"H", "L", "T", " ", " ">>

(***************************************************************************)
(* RAM images from the buttons and from the monitor                        *)
(***************************************************************************)
\* memory_clear(s, e, v)
memory_clear(r, s, e, v) ==
  write_ram_result(r, [i \in 0..(e - s) |-> v], s, e - s + 1)

\* command 'C 00 0f v'
CmdClear(v) ==
  /\ mode = "monitor"
  /\ pins' = pins
  /\ HwIdle
  /\ cmd' = [op |-> "C", arg |-> v]
  /\ ram' = memory_clear(ram, 0, RamSize - 1, v)
  /\ msg' = "Set memory range "
  /\ UNCHANGED <<mode, print_serial_output, num_breakpoints, breakpoints, eeprom, ncmds>>

\* loop(): the SAVE button with the DIP switches at dip.  typed tells whether a
\* character other than ESC had arrived when Serial.available() was sampled
ButtonSave(dip, typed) ==
  /\ mode = "loop"
  /\ print_serial_output' = typed
  /\ pins' = disable_signal_control(enable_signal_control(pins))
  /\ HwIdle
  /\ cmd' = [op |-> "SAVE", arg |-> dip]
  /\ LET s == save_ram_image(eeprom, ram, typed, dip)
     IN /\ eeprom' = s.eeprom
        /\ msg' = s.msg
  /\ UNCHANGED <<mode, num_breakpoints, breakpoints, ram, ncmds>>

\* loop(): the LOAD button with the DIP switches at dip
ButtonLoad(dip, typed) ==
  /\ mode = "loop"
  /\ print_serial_output' = typed
  /\ pins' = disable_signal_control(enable_signal_control(pins))
  /\ HwIdle
  /\ cmd' = [op |-> "LOAD", arg |-> dip]
  /\ \E before \in StaleBuffers(ram) :
       LET l == load_ram_image(eeprom, ram, before, typed, dip)
       IN /\ ram' = l.ram
          /\ msg' = l.msg
  /\ UNCHANGED <<mode, num_breakpoints, breakpoints, eeprom, ncmds>>

\* image numbers typed in the monitor, DIP switch settings, fill values
Slots == {0, 61, 62, 63}
DipNums == {0, 15}
ClearVals == {0, 255}

InitImage ==
  /\ InitBp
  /\ eeprom = FreshEeprom

NextImage ==
  \/ \E seen \in BOOLEAN : EnterMonitor(seen)
  \/ ExitMonitor
  \/ \E n \in Slots : CmdSaveImage(n)
  \/ \E n \in Slots : CmdLoadImage(n)
  \/ \E v \in ClearVals : CmdClear(v)
  \/ \E dip \in DipNums, typed \in BOOLEAN : ButtonSave(dip, typed)
  \/ \E dip \in DipNums, typed \in BOOLEAN : ButtonLoad(dip, typed)

SpecImage == InitImage /\ [][NextImage]_vars

\* the 16 bytes of slot n in the EEPROM
SlotBytes(e, n) == [i \in 0..(RamSize - 1) |-> e[16 * n + i]]

\* C18: in the 4-bit configuration a save and a load of every slot 0..62 succeeds:
\* the save stores the 16 bytes of RAM at offsets 16*n..16*n+15, the load puts the
\* 16 bytes of the slot into RAM, and neither reports an error
C18_EverySlotSavesAndLoads ==
  [][/\ (cmd'.op = "s" /\ cmd'.arg \in 0..62) =>
          /\ msg' # "[Error: exceeded EEPROM address space"
          /\ SlotBytes(eeprom', cmd'.arg) = read_ram_result(ram, 0, RamSize)
     /\ (cmd'.op = "l" /\ cmd'.arg \in 0..62) =>
          /\ msg' # "[Error: exceeded EEPROM address space"
          /\ read_ram_result(ram', 0, RamSize) = SlotBytes(eeprom, cmd'.arg)]_vars

\* C19: a save or load of a RAM image whose region 16*n..16*n+15 is not within the
\* reserved capacity is reported as an error, leaves the EEPROM as it was, and a
\* load leaves RAM as it was
C19_BoundViolationReported ==
  [][(cmd'.op \in {"s", "l", "SAVE", "LOAD"}
        /\ ~EepromRangeOk(TRUE, 16 * cmd'.arg, RamSize)) =>
       /\ msg' = "[Error: exceeded EEPROM address space"
       /\ eeprom' = eeprom
       /\ ram' = ram]_vars

(***************************************************************************)
(* Interrupts around the bus routines: 'r n', a write and a read of RAM,   *)
(* and the return of control to the target                                 *)
(***************************************************************************)
\* disable_signal_control(wait_clock) as loop() and setup() call it
CallDisableSignalControl(wait_clock) ==
  /\ gh.op = "none"
  /\ Call("idle", [fr EXCEPT !.wait_clock = wait_clock], [gh EXCEPT !.op = "release"],
          "ds160", "released")

TransferLens == {0, 2}

InitInterrupts == InitTarget({ProgA}, {0, 5}, {0, 4, 5})

NextInterrupts ==
  \/ \E n \in RunArgs : CmdRun(n)
  \/ CmdRunGetPc
  \/ \E len \in TransferLens : CallWriteRam(14, len, 0)
  \/ CallReadBack
  \/ \E wait_clock \in BOOLEAN : CallDisableSignalControl(wait_clock)
  \/ run
  \/ get_pc
  \/ read_ram
  \/ write_ram
  \/ disable_signal_control_steps
  \/ ClockRise
  \/ ClockFall

SpecInterrupts == InitInterrupts /\ [][NextInterrupts]_vars

\* the statements of the five routines that drive or read a control line or the
\* bus, or wait for a clock edge between two of them (the wait_clock_info at the
\* head of read_ram and write_ram only tells the user that the clock stands still)
TimingSensitive ==
  {"ds170", "ds171", "ds177", "ds180",
   "rr198", "rr203", "rr204", "rr205", "rr206", "rr207", "rr208", "rr209", "rr210",
   "rr211", "rr212", "rr213", "rr214", "rr217", "rr218",
   "wr234", "wr237", "wr242", "wr243", "wr244", "wr245", "wr246", "wr247", "wr248",
   "wr249", "wr250", "wr251", "wr254", "wr255", "wr256",
   "gp1085", "gp1086", "gp1090", "gp1093", "gp1096", "gp1097", "gp1100", "gp1101",
   "gp1102", "gp1103", "gp1106",
   "ru1173", "ru1174", "ru1178", "ru1181", "ru1186", "ru1187", "ru1215", "ru1217",
   "ru1220", "ru1221", "ru1224", "ru1229", "ru1230", "ru1237", "ru1238", "ru1239",
   "ru1240", "ru1243"}

\* after the interrupts() of a routine: its return, and the callers' statements
Returned ==
  {"ds183", "rr220", "wr260", "gp1111", "ru1251", "ru1264",
   "idle", "wrote", "done", "r1511", "released"}

\* C20: read_ram, write_ram, get_pc, run and disable_signal_control execute every
\* timing-sensitive bus or control-line statement with interrupts suspended, and
\* interrupts are enabled when any of them returns, whichever way run left its loop
C20_InterruptsSuspendedAndRestored ==
  /\ pc \in TimingSensitive => ~intr
  /\ pc \in Returned => intr

\* run has returned through the break of a breakpoint hit
C20_Witness ==
  /\ pc = "r1511"
  /\ gh.op = "run"
  /\ gh.exit = "breakpoint"
  /\ intr

(***************************************************************************)
(* Release and acquisition of the control lines                            *)
(***************************************************************************)
\* the statements of disable_signal_control
DsLabels == {"ds160", "ds168", "ds170", "ds171", "ds177", "ds180", "ds182", "ds183"}

GpAfterSample == {"gp1100", "gp1101", "gp1102", "gp1103", "gp1106", "gp1109", "gp1111"}

\* C22 as stated: when get_pc returns, the control lines are released to the target
C22_ReturnsReleased == (pc = "gp1111") => TargetInControl(pins)

\* C22: get_pc hands the control lines to the target, samples the bus at the next
\* clock high, which is the first fetch cycle with the program counter on the bus,
\* then takes the lines back without waiting for another clock edge: when it returns
\* the programmer drives MI, RO and RI low, the target's EEPROM is disabled and the
\* value returned is the target's program counter
C22_SamplesThenTakesBack ==
  /\ (pc = "gp1097") => (TargetInControl(pins) /\ clk = 1 /\ cpu.step = 0)
  /\ (pc \in GpAfterSample) => (clk = 1 /\ fr.g_pc = cpu.pc)
  /\ (pc = "gp1111") => pins = enable_signal_control(pins)

\* get_pc has returned a program counter other than 0 after a run
C22_Witness ==
  /\ pc = "done"
  /\ gh.op = "run"
  /\ fr.g_pc = cpu.pc
  /\ fr.g_pc > 0
  /\ pins = MonitorPins

(***************************************************************************)
(* 'r n' with n close to the range of the byte counter, on a program that  *)
(* never halts, without breakpoints.  The firmware keeps executing and the *)
(* clock keeps running.                                                    *)
(***************************************************************************)
BoundedRunArgs == {1, 2, 254, 255}

InitRunBounded == InitTarget({ProgB}, {0}, {0})

NextRunBounded ==
  \/ \E n \in BoundedRunArgs : CmdRun(n)
  \/ CmdRunGetPc
  \/ run
  \/ get_pc
  \/ ClockRise
  \/ ClockFall

SpecRunBounded == InitRunBounded /\ [][NextRunBounded]_vars /\ WF_vars(NextRunBounded)

\* C23: for every n in 1..255, run(n) with a running clock, no breakpoint, no halt
\* opcode and no host activity comes to the end of its loop by the limit, after the
\* loop body has run for the counts 1..n
C23_BoundedRunEndsByLimit ==
  /\ (gh.op = "run" /\ gh.arg \in 1..255) ~> (gh.exit = "limit" \/ gh.host)
  /\ []((gh.op = "run" /\ gh.arg \in 1..255 /\ pc = "ru1186") => fr.i \in 1..gh.arg)

(***************************************************************************)
(* Breakpoint commands whose save_breakpoints() is cut off by a loss of    *)
(* power after k of its EEPROM writes                                      *)
(***************************************************************************)
\* the EEPROM after the first k byte writes of save_breakpoints(), k <= num: the
\* values of breakpoints[0..k-1] are written, the count is not
save_breakpoints_cut(e, num, bps, k) == SaveValues(e, k, bps, 0)

\* power is lost during the command: the EEPROM keeps what was written
PowerLost(op, a, e) ==
  /\ mode' = "loop"
  /\ num_breakpoints' = 0
  /\ breakpoints' = ZeroBreakpoints
  /\ eeprom' = e
  /\ msg' = ""
  /\ cmd' = [op |-> op, arg |-> a]
  /\ pins' = ReleasedPins
  /\ print_serial_output' = TRUE
  /\ HwIdle
  /\ UNCHANGED <<ram, ncmds>>

\* command 'b a' that adds a, cut off after k writes
CutAddBreakpoint(a, k) ==
  /\ mode = "monitor"
  /\ FindBreakpoint(num_breakpoints, breakpoints, a) >= num_breakpoints
  /\ HasRoom(num_breakpoints)
  /\ LET n == AppendBreakpoint(num_breakpoints, breakpoints, a)
     IN /\ k <= n.num
        /\ PowerLost("cut b", a, save_breakpoints_cut(eeprom, n.num, n.bps, k))

\* command 'B a' that removes a, cut off after k writes
CutRemoveBreakpoint(a, k) ==
  /\ mode = "monitor"
  /\ LET j == FindBreakpoint(num_breakpoints, breakpoints, a)
     IN /\ j < num_breakpoints
        /\ LET n == RemoveAt(num_breakpoints, breakpoints, j)
           IN /\ k <= n.num
              /\ PowerLost("cut B", a, save_breakpoints_cut(eeprom, n.num, n.bps, k))

\* command 'B *', cut off before its only write
CutRemoveAll ==
  /\ mode = "monitor"
  /\ PowerLost("cut B*", 0, save_breakpoints_cut(eeprom, 0, breakpoints, 0))

CutVals == {0, 1, 2}
CutPoints == 0..MAX_BREAKPOINTS

InitBpCut == InitBp

NextBpCut ==
  \/ EnterMonitor(TRUE)
  \/ \E a \in CutVals : CmdAddBreakpoint(a)
  \/ \E a \in CutVals : CmdRemoveBreakpoint(a)
  \/ \E a \in CutVals, k \in CutPoints : CutAddBreakpoint(a, k)
  \/ \E a \in CutVals, k \in CutPoints : CutRemoveBreakpoint(a, k)
  \/ CutRemoveAll

SpecBpCut == InitBpCut /\ [][NextBpCut]_vars

\* the set the mutation of a cut command was about to persist
SetAfter(op, a, before) ==
  CASE op = "cut b" -> before \cup {a}
    [] op = "cut B" -> before \ {a}
    [] OTHER -> {}

\* C24: when a save of the breakpoint set is cut off between two byte writes,
\* load_breakpoints on the resulting EEPROM yields the set before the mutation or
\* the set after it, as a count of distinct values: no value is stored twice among
\* the entries the count covers
C24_CutSaveIsOldOrNew ==
  [][(cmd'.op \in {"cut b", "cut B", "cut B*"}) =>
       LET before == BpSet(num_breakpoints, breakpoints)
           l == load_breakpoints(eeprom', 0, ZeroBreakpoints)
           loaded == BpSet(l.num, l.bps)
       IN /\ loaded \in {before, SetAfter(cmd'.op, cmd'.arg, before)}
          /\ Cardinality(loaded) = l.num]_vars

(***************************************************************************)
(* The breakpoint comparison in run                                        *)
(***************************************************************************)
\* C25: the breakpoint comparison is skipped on the first iteration only: a run
\* never leaves its loop on a breakpoint in the first iteration, a run of at least
\* one instruction that starts on a breakpoint and sees no host activity returns
\* after that instruction was fetched, and on every later iteration the loop goes on
\* past the comparison only if the sampled program counter is not a breakpoint
C25_FirstIterationSkip ==
  (gh.op = "run") =>
     /\ (gh.exit = "breakpoint") => (gh.iters >= 2 /\ ~fr.first)
     /\ (pc = "ru1215" /\ fr.first) => fr.rpc = gh.pc0
     /\ (pc = "ru1215" /\ ~fr.first) => ~BreakpointHit(fr.rpc)
     /\ (RunReturns /\ BreakpointHit(gh.pc0) /\ gh.arg >= 1 /\ ~gh.host) =>
          gh.fetched # -1

\* a run that started on a breakpoint has stopped on the breakpoint that follows
C25_Witness ==
  /\ RunReturns /\ gh.op = "run" /\ ~gh.host
  /\ BreakpointHit(gh.pc0)
  /\ gh.exit = "breakpoint"
  /\ gh.iters = 2
  /\ gh.execN = 1
  /\ fr.rpc # gh.pc0

\* C26: on every iteration after the first a sampled program counter that is in
\* the breakpoint set ends the loop before the host line is polled and before the
\* opcode is sampled (the target is still in its first fetch cycle), and run then
\* returns the normal outcome, also when the instruction at that address is the halt
\* instruction; the host line is polled once in each iteration, after the
\* comparison and before the opcode is sampled
C26_StopPriority ==
  /\ []((gh.op = "run" /\ pc = "ru1215" /\ ~fr.first) => ~BreakpointHit(fr.rpc))
  /\ []((gh.op = "run" /\ gh.exit = "breakpoint" /\ pc = "ru1237") =>
          (cpu.step = 0 /\ cpu.pc = fr.rpc /\ gh.fetched = fr.opcode))
  /\ []((gh.op = "run" /\ gh.exit = "breakpoint" /\ RunReturns) =>
          (gh.outcome = "normal" /\ fr.ret = TRUE))
  /\ [][(pc' = "ru1215" /\ pc # "ru1215") => pc = "ru1191"]_vars
  /\ [][(pc' = "ru1217" /\ pc # "ru1217") => pc = "ru1215"]_vars
  /\ [][(pc' = "ru1220" /\ pc # "ru1220") => pc = "ru1217"]_vars
  /\ [][(pc' = "ru1221" /\ pc # "ru1221") => pc = "ru1220"]_vars

(***************************************************************************)
(* Halt detection and instruction boundaries in run                        *)
(***************************************************************************)
\* C27: when the target has fetched an opcode byte whose high nibble is the halt
\* opcode (0xF0..0xFF) during run, the loop does not go on past its halt test, and
\* if the host line was never seen active run returns the halt outcome
C27_HaltAnyLowNibble ==
  (gh.op = "run" /\ gh.fetched # -1 /\ HighNibble(gh.fetched) = hlt) =>
     /\ pc \notin AfterHaltTest
     /\ (RunReturns /\ ~gh.host) => (gh.exit = "halt" /\ gh.outcome = "halt")

\* the descriptors of the instructions other than HLT
RealNonHalt == {k \in 1..Len(opcodes_4bit) :
                  /\ opcodes_4bit[k].opcode % 16 = 0
                  /\ opcodes_4bit[k].opcode # hlt}

\* C28: for every opcode whose high nibble is not the halt opcode run uses the
\* idle-cycle count of the descriptor the high nibble selects, which the
\* pseudo-descriptors leave as the table gives it; while run skips those cycles its
\* count of the cycles consumed is the target's step counter, and every program
\* counter is sampled with the clock high in the first cycle of an instruction
C28_InstructionBoundary ==
  /\ \A k \in RealNonHalt :
       CycleTable[opcodes_4bit[k].opcode] = opcodes_4bit[k].num_cycles
  /\ (gh.op = "run" /\ pc = "ru1187") =>
       (TargetInControl(pins) /\ clk = 1 /\ cpu.step = 0 /\ mar = cpu.pc)
  /\ (gh.op = "run" /\ pc \in {"ru1226", "ru1227", "ru1229", "ru1231", "ru1233"}
        /\ HighNibble(fr.opcode) # hlt) =>
       /\ fr.opcode = cpu.ir
       /\ fr.cycles = opcodes_4bit[DescriptorIndex(fr.opcode)].num_cycles
       /\ pc = "ru1227" =>
            cpu.step = (FetchCycles + fr.j) % (FetchCycles + fr.cycles)

\* the third program counter of a run is sampled, after an OUT
C28_Witness ==
  /\ gh.op = "run" /\ pc = "ru1187" /\ ~fr.first
  /\ gh.iters = 3
  /\ fr.opcode = 224
  /\ cpu.step = 0 /\ clk = 1

(***************************************************************************)
(* Clock cycles of a transfer                                              *)
(***************************************************************************)
\* write_ram or read_ram is about to return
TransferReturns ==
  \/ (pc = "wr260" /\ gh.op = "write")
  \/ (pc = "rr220" /\ gh.op = "read")

\* C29 as stated: a transfer of len bytes takes len clock cycles from its first to
\* its last control-line pulse
C29_OneCyclePerByte == TransferReturns => gh.rises = fr.xl

\* C29: each byte takes two clock cycles, one whose rising edge latches the address
\* (MI high) and one whose rising edge transfers the data (RI or RO high): at the
\* head of the loop 2*i rising edges have passed since the first pulse, and a
\* transfer of len bytes has taken 2*len when it returns
C29_TwoCyclesPerByte ==
  /\ TransferReturns => gh.rises = 2 * fr.xl
  /\ (pc = "wr239" /\ gh.op = "write") => gh.rises = 2 * fr.xi
  /\ (pc = "rr200" /\ gh.op = "read") => gh.rises = 2 * fr.xi

\* a read of MaxLen bytes has returned
C29_Witness ==
  /\ pc = "done" /\ gh.op = "read"
  /\ fr.xl = MaxLen
  /\ gh.rises = 2 * MaxLen


(***************************************************************************)
(* wait_clock_stop (lines 124-140).  Time is counted in ticks of 20 ms;    *)
(* micros() differences are tick counts.  The clock generator toggles the  *)
(* clock line every wcs.half ticks while it runs and holds the level once  *)
(* it is switched off.  The firmware polls much faster than the clock, so  *)
(* a tick passes only when no statement of the routine can proceed.  The   *)
(* target's reaction to the edges is not part of this specification.       *)
(***************************************************************************)
MaxHalf == 3
HalfPeriods == 1..MaxHalf
\* line 137: 100000 microseconds, in ticks
FloorTicks == 5
\* tick counters saturate above every value the comparisons distinguish
TickCap == 4 * MaxHalf + FloorTicks + 1
TickInc(n) == IF n < TickCap THEN n + 1 ELSE n

WcsLabels == {"w125", "w127", "w128", "w135", "w136"}

WcsFrame ==
  UNCHANGED <<mode, print_serial_output, num_breakpoints, breakpoints, eeprom, ram,
              cmd, ncmds, pins, intr, mar, cpu, pc, stack, fr, gh, asm>>

\* line 137: (micros()-t)>2*len && (micros()-t)>100000
Expired(w) == w.e > 2 * w.len /\ w.e > FloorTicks

\* lines 125-126: wait_clock_low(); len = micros()
Wcs125 ==
  /\ wcs.pc = "w125" /\ clk = 0
  /\ wcs' = [wcs EXCEPT !.pc = "w127", !.m = 0]
  /\ UNCHANGED <<clk, msg>> /\ WcsFrame

\* line 127: wait_clock_high()
Wcs127 ==
  /\ wcs.pc = "w127" /\ clk = 1
  /\ wcs' = [wcs EXCEPT !.pc = "w128"]
  /\ UNCHANGED <<clk, msg>> /\ WcsFrame

\* lines 128-133: wait_clock_low(); len = micros() - len; println; wait = true
Wcs128 ==
  /\ wcs.pc = "w128" /\ clk = 0
  /\ wcs' = [wcs EXCEPT !.pc = "w135", !.len = wcs.m]
  /\ msg' = "Waiting for clock to stop..."
  /\ UNCHANGED clk /\ WcsFrame

\* lines 135-136: while( CLOCK() ); t = micros()
Wcs135 ==
  /\ wcs.pc = "w135" /\ clk = 0
  /\ wcs' = [wcs EXCEPT !.pc = "w136", !.e = 0]
  /\ UNCHANGED <<clk, msg>> /\ WcsFrame

\* line 136: while( wait && !CLOCK() ) if( ... ) wait = false;  a high clock
\* ends the inner loop with wait still true, an expired time ends both loops
Wcs136 ==
  /\ wcs.pc = "w136"
  /\ \/ clk = 1 /\ wcs' = [wcs EXCEPT !.pc = "w135"]
     \/ clk = 0 /\ Expired(wcs) /\ wcs' = [wcs EXCEPT !.pc = "ret"]
  /\ UNCHANGED <<clk, msg>> /\ WcsFrame

\* a statement of the routine can proceed at the present clock level
WcsCanStep ==
  \/ wcs.pc \in {"w125", "w128", "w135"} /\ clk = 0
  \/ wcs.pc = "w127" /\ clk = 1
  \/ wcs.pc = "w136" /\ (clk = 1 \/ Expired(wcs))

\* 20 ms pass: micros() advances, and a running generator toggles the clock
\* line when its half period is over
ClockTick ==
  /\ wcs.pc \in WcsLabels /\ ~WcsCanStep
  /\ LET edge == wcs.running /\ wcs.phase + 1 = wcs.half
     IN /\ clk' = IF edge THEN 1 - clk ELSE clk
        /\ wcs' = [wcs EXCEPT
                     !.phase = IF ~wcs.running \/ edge THEN 0 ELSE wcs.phase + 1,
                     !.m = IF wcs.pc \in {"w127", "w128"} THEN TickInc(wcs.m)
                           ELSE wcs.m,
                     !.e = IF wcs.pc = "w136" THEN TickInc(wcs.e) ELSE wcs.e]
  /\ UNCHANGED msg /\ WcsFrame

\* the user switches the clock generator off: the line keeps its level
ClockStop ==
  /\ wcs.pc \in WcsLabels /\ wcs.running
  /\ wcs' = [wcs EXCEPT !.running = FALSE, !.phase = 0]
  /\ UNCHANGED <<clk, msg>> /\ WcsFrame

\* wait_clock_stop is called while the clock runs: any half period, any
\* moment of the cycle
InitClockStop ==
  /\ mode = "monitor"
  /\ num_breakpoints = 0 /\ breakpoints = BpArray(0)
  /\ eeprom = FreshEeprom
  /\ ram = ProgA
  /\ msg = ""
  /\ cmd = [op |-> "enter", arg |-> 0]
  /\ ncmds = 0
  /\ clk \in {0, 1}
  /\ pins = MonitorPins
  /\ intr = TRUE
  /\ mar = 0
  /\ cpu = Cpu0(0)
  /\ pc = "idle"
  /\ stack = <<>>
  /\ fr = Fr0
  /\ gh = Gh0
  /\ asm = Asm0
  /\ print_serial_output = TRUE
  /\ \E h \in HalfPeriods : \E p \in 0..(h - 1) :
       wcs = [Wcs0 EXCEPT !.pc = "w125", !.half = h, !.phase = p]

NextClockStop ==
  \/ Wcs125
  \/ Wcs127
  \/ Wcs128
  \/ Wcs135
  \/ Wcs136
  \/ ClockTick
  \/ ClockStop

SpecClockStop == InitClockStop /\ [][NextClockStop]_vars /\ WF_vars(NextClockStop)

\* wait_clock_stop returns only after a low phase longer than twice the measured
\* baseline and longer than 100 ms, and never while the clock keeps toggling
C30_ReturnsOnlyAfterLongLow ==
  wcs.pc = "ret" => (wcs.e > 2 * wcs.len /\ wcs.e > FloorTicks /\ ~wcs.running)

\* a clock that stops low after the baseline was measured lets the routine return
C30_StoppedLowReturns ==
  (~wcs.running /\ clk = 0 /\ wcs.pc \in {"w135", "w136"}) ~> (wcs.pc = "ret")

\* the routine returned after a clock with the longest half period stopped low
C30_Witness ==
  wcs.pc = "ret" /\ wcs.half = MaxHalf /\ wcs.len = 2 * MaxHalf

\* C30: wait_clock_stop measures one clock period and returns only after an
\* observed period longer than twice that baseline and longer than 100 ms: it
\* never returns while the clock keeps toggling, and it eventually returns once
\* the clock has stopped toggling, whichever level the clock stops at
C30_ReturnsOnceClockStopped ==
  /\ [](wcs.pc = "ret" => (wcs.e > 2 * wcs.len /\ wcs.e > FloorTicks /\ ~wcs.running))
  /\ (~wcs.running) ~> (wcs.pc = "ret")

\* the same claim for a clock that stops after the baseline was measured
C30_ReturnsOnceStoppedAfterBaseline ==
  (~wcs.running /\ wcs.pc \in {"w135", "w136"}) ~> (wcs.pc = "ret")

(***************************************************************************)
(* Several assembly passes, one after the other, with lines that define    *)
(* and reference labels                                                    *)
(***************************************************************************)
PassLines ==
  {
    <<"L", " ", "N", "O", "P">>,
    <<"L", " ", "O", "U", "T">>,   \* L again
    <<" ", "J", "M", "P", " ", "L">>,
    <<"L", "O", "O", "P">>,
    <<"L", "O", "O", " ", "H", "L", "T">>   \* the same 3 characters as LOOP
  }
PassStarts == {0, 5}

InitAsmPasses == InitTarget({InitialRam}, {0}, {0})

NextAsmPasses ==
  \/ \E s \in PassStarts : CmdAssemble(s)
  \/ \E line \in PassLines : asm.nlines < MaxLines /\ AsmLine(line)
  \/ AsmEnd

SpecAsmPasses == InitAsmPasses /\ [][NextAsmPasses]_vars

\* a step that assembles one line, and a step that starts a pass
AsmLineStep == asm.active /\ asm'.active /\ asm'.nlines = asm.nlines + 1
PassStart == ~asm.active /\ asm'.active

\* the name a line defines (the 3 characters find_label compares), <<>> if the
\* line does not start with a label
DefinedName(line) ==
  IF line # <<>> /\ isAlpha(line[1])
  THEN LabelName(line \o <<" ">>, 0, SkipAlphaNumeric(line \o <<" ">>, 0))
  ELSE <<>>

\* the table holds an address for this name
HasAddress(labels, name) ==
  \E k \in 1..Len(labels) : labels[k].label = name /\ labels[k].loc >= 0

\* C31: within a pass a label's address, once set, never changes; a second
\* definition of a label that has an address is rejected as a duplicate and
\* leaves the table as it was; a pass starts with an empty label table, and
\* every address in the table was set by a definition line of this pass, to
\* the write address of that line.
C31_LabelAddressFixed ==
  /\ [][AsmLineStep =>
          \A k \in 1..Len(asm.labels) :
            asm.labels[k].loc >= 0 =>
              /\ Len(asm'.labels) >= k
              /\ asm'.labels[k].label = asm.labels[k].label
              /\ asm'.labels[k].loc = asm.labels[k].loc]_vars
  /\ [][(AsmLineStep /\ HasAddress(asm.labels, DefinedName(asm'.line))) =>
          /\ ~asm'.ok
          /\ "Duplicate label definition." \in Range(asm'.out)
          /\ asm'.labels = asm.labels]_vars
  /\ [][PassStart => asm'.labels = <<>>]_vars
  /\ [][AsmLineStep =>
          \A k \in 1..Len(asm'.labels) :
            asm'.labels[k].loc >= 0 =>
              \/ k <= Len(asm.labels) /\ asm.labels[k].loc = asm'.labels[k].loc
              \/ /\ asm'.labels[k].label = DefinedName(asm'.line)
                 /\ asm'.labels[k].loc = asm.a]_vars

\* in a pass that follows a finished one, L was defined and a second
\* definition of L has just been rejected
C31_Witness ==
  /\ asm.active /\ asm.report.printed
  /\ ~asm.ok /\ asm.out = <<"Duplicate label definition.">>
  /\ asm.line = <<"L", " ", "O", "U", "T">>
  /\ HasAddress(asm.labels, <<"L", " ", " ">>)
  /\ asm.labels = asm.before.labels

(***************************************************************************)
(* A long assembly pass: line n references a new label Xn, defines a new   *)
(* label Xn, or references L.  The first FreeLines lines are of any kind,  *)
(* every later line is of the kind of the line before it.                  *)
(***************************************************************************)
FillKinds == {"ref", "def", "same"}

FillLine(kind, n) ==
  CASE kind = "ref" -> <<" ", "J", "M", "P", " ", "X", UpperCase[n]>>
    [] kind = "def" -> <<"X", UpperCase[n], " ", "N", "O", "P">>
    [] kind = "same" -> <<" ", "J", "M", "P", " ", "L">>

KindOf(line) ==
  IF line = <<>> THEN "none"
  ELSE IF line[1] # " " THEN "def" ELSE IF Len(line) = 6 THEN "same" ELSE "ref"

InitAsmFill == InitTarget({InitialRam}, {0}, {0})

AsmFillLine(kind) ==
  /\ asm.nlines < MaxFill
  /\ asm.nlines < FreeLines \/ kind = KindOf(asm.line)
  /\ AsmLine(FillLine(kind, asm.nlines + 1))

NextAsmFill ==
  \/ asm.nlines = 0 /\ CmdAssemble(0)
  \/ \E kind \in FillKinds : AsmFillLine(kind)
  \/ AsmEnd

SpecAsmFill == InitAsmFill /\ [][NextAsmFill]_vars

\* the table has an entry for this name
InTable(labels, name) == \E k \in 1..Len(labels) : labels[k].label = name

\* the labels the last line referenced
ReferencedNames ==
  {asm.refs[k].ref.label : k \in {m \in 1..Len(asm.refs) : asm.refs[m].n = asm.nlines}}

\* the labels the last line named, in a definition or a reference
NamedLabels ==
  ReferencedNames \cup (IF DefinedName(asm.line) = <<>> THEN {} ELSE {DefinedName(asm.line)})

\* the last line was rejected with this message and emitted no byte: the
\* write address is where it was and no cell has the line as its writer
RejectedWith(message) ==
  /\ ~asm.ok
  /\ message \in Range(asm.out)
  /\ asm.a = asm.before.a
  /\ \A c \in 0..(RamSize - 1) : asm.writer[c] # asm.nlines
  /\ DefinedName(asm.line) = <<>> => ram = asm.before.ram

\* the entry of this name had no address and a full list of forward references
FullForward(labels, name) ==
  \E k \in 1..Len(labels) :
    /\ labels[k].label = name /\ labels[k].loc < 0
    /\ Len(labels[k].forward) = ASM_MAX_LABEL_FORWARD_REF

\* C32: num_labels <= 16 and every forward_count <= 16 in every state of a
\* pass; a line naming a label that would be the 17th is rejected with "Too
\* many labels." and a line that would record a 17th forward reference to a
\* label is rejected with "Too many forward references to label."; neither
\* emits a byte.
C32_LabelTableBounds ==
  /\ Len(asm.labels) <= ASM_MAX_LABELS
  /\ \A k \in 1..Len(asm.labels) :
       Len(asm.labels[k].forward) <= ASM_MAX_LABEL_FORWARD_REF
  /\ (/\ AsmLineDone
      /\ Len(asm.before.labels) = ASM_MAX_LABELS
      /\ \E name \in NamedLabels : ~InTable(asm.before.labels, name))
       => (RejectedWith("Too many labels.") /\ asm.labels = asm.before.labels)
  /\ (/\ AsmLineDone
      /\ \E name \in ReferencedNames : FullForward(asm.before.labels, name))
       => (RejectedWith("Too many forward references to label.")
           /\ asm.labels = asm.before.labels)

\* the 17th line of a pass referenced a 17th label and was rejected
C32_Witness ==
  /\ AsmLineDone /\ asm.nlines = ASM_MAX_LABELS + 1
  /\ Len(asm.before.labels) = ASM_MAX_LABELS
  /\ KindOf(asm.line) = "ref"
  /\ asm.out = <<"Too many labels.">>

\* a 17th forward reference to L was rejected
SeventeenthForward ==
  /\ AsmLineDone /\ FullForward(asm.before.labels, <<"L", " ", " ">>)
  /\ KindOf(asm.line) = "same"
  /\ asm.out = <<"Too many forward references to label.">>

(***************************************************************************)
(* Statements of every kind, each with the descriptor it names (1-based)   *)
(* and the value of its argument; a label argument has arg -1 and stands   *)
(* for the address of L                                                    *)
(***************************************************************************)
EmitCases ==
  {
    [line |-> <<" ", "N", "O", "P">>, idx |-> 1, arg |-> 0],
    [line |-> <<" ", "o", "u", "t">>, idx |-> 15, arg |-> 0],
    [line |-> <<" ", "L", "D", "I", " ", "5">>, idx |-> 6, arg |-> 5],
    [line |-> <<" ", "A", "D", "D", " ", "2", "1">>, idx |-> 3, arg |-> 21],
    [line |-> <<" ", "J", "C", " ", "$", "A", "7">>, idx |-> 8, arg |-> 167],
    [line |-> <<"L", " ", "H", "L", "T">>, idx |-> 16, arg |-> 0],
    [line |-> <<" ", "J", "M", "P", " ", "L">>, idx |-> 7, arg |-> -1],
    [line |-> <<" ", ".", "O", "R", " ", "9">>, idx |-> 17, arg |-> 9],
    [line |-> <<" ", ".", "O", "R", " ", "2", "0", "0">>, idx |-> 17, arg |-> 200],
    [line |-> <<" ", ".", "B", "Y", " ", "2", "0", "0">>, idx |-> 18, arg |-> 200],
    [line |-> <<" ", ".", "B", "Y", " ", "$", "3">>, idx |-> 18, arg |-> 3]
  }
EmitStarts == {0, 14}

InitAsmEmit == InitTarget({InitialRam}, {0}, {0})

NextAsmEmit ==
  \/ \E s \in EmitStarts : asm.nlines = 0 /\ CmdAssemble(s)
  \/ \E c \in EmitCases : asm.nlines < MaxLines /\ AsmLine(c.line)
  \/ AsmEnd

SpecAsmEmit == InitAsmEmit /\ [][NextAsmEmit]_vars

\* the case of the last line
LastCase == CHOOSE c \in EmitCases : c.line = asm.line

\* the last line referenced L before L had an address
ForwardToL == LastCase.arg = -1 /\ ~HasAddress(asm.before.labels, <<"L", " ", " ">>)

\* the value of the last line's argument
LastArg ==
  IF LastCase.arg >= 0 THEN LastCase.arg
  ELSE asm.before.labels[CHOOSE k \in 1..Len(asm.before.labels) :
                           asm.before.labels[k].label = <<"L", " ", " ">>].loc

\* the cell the last line's write address names
EmitCell == RamCell(Address(asm.before.a, 0))

\* the cells holding forward references to the label the last line defined
PatchedCells ==
  UNION {{RamCell(asm.before.labels[k].forward[j]) :
            j \in 1..Len(asm.before.labels[k].forward)} :
         k \in {m \in 1..Len(asm.before.labels) :
                  asm.before.labels[m].label = DefinedName(asm.line)}}

\* every cell but the one at the write address is as it was, patched forward
\* references aside
OthersUnchanged ==
  \A c \in (0..(RamSize - 1)) \ PatchedCells :
    c # EmitCell => ram[c] = asm.before.ram[c]

\* C33: a statement of a valid form is accepted with the descriptor it names
\* (unless it defines a label a second time);
\* a real instruction writes exactly one byte, the opcode's high nibble with
\* the argument's low nibble (0 without argument), at the write address and
\* advances the address by one; .OR writes nothing and makes its argument the
\* write address; .BY writes its argument byte and advances the address by one.
\* (An instruction referencing a label that has no address yet is left out:
\* its operand is filled in when the label is defined.)
C33_EmissionPerStatement ==
  (AsmLineDone /\ \E c \in EmitCases : c.line = asm.line) =>
    /\ asm.ok \/ HasAddress(asm.before.labels, DefinedName(asm.line))
    /\ asm.ok => asm.idx = LastCase.idx
    /\ (asm.ok /\ asm.idx <= 16 /\ ~ForwardToL) =>
         /\ ram[EmitCell] = HighNibble(opcodes_4bit[asm.idx].opcode) + LowNibble(LastArg)
         /\ OthersUnchanged
         /\ asm.a = asm.before.a + 1
    /\ asm.idx = 17 =>
         /\ ram = asm.before.ram
         /\ asm.a = LastArg
    /\ asm.idx = 18 =>
         /\ ram[EmitCell] = LastArg
         /\ OthersUnchanged
         /\ asm.a = asm.before.a + 1

\* L HLT, then .OR 200, then JMP L: the instruction was written with the low
\* nibble of L's address
C33_Witness ==
  /\ AsmLineDone /\ asm.nlines = 3
  /\ asm.src = << <<"L", " ", "H", "L", "T">>,
                  <<" ", ".", "O", "R", " ", "2", "0", "0">>,
                  <<" ", "J", "M", "P", " ", "L">> >>
  /\ asm.before.a = 200 /\ asm.a = 201
  /\ ram[EmitCell] = 96 + LowNibble(LastArg) /\ LastArg = 14

(***************************************************************************)
(* The programmer as bus master                                            *)
(***************************************************************************)
\* the control lines are outputs driven low, the bus pins are inputs and the
\* target's storage device is disabled
BusMaster(p) ==
  p.cs = "out" /\ p.mi = 0 /\ p.ri = 0 /\ p.ro = 0 /\ p.bus = "in" /\ p.ee = 1

\* the return statements of read_ram, write_ram, get_pc, run and set_pc
ReturnLabels == {"rr220", "wr260", "gp1111", "ru1264", "sp1149"}

\* C34: whenever read_ram, write_ram, get_pc, run or set_pc returns, and
\* whenever the monitor is between operations, the three control lines are
\* outputs driven low, the bus pins are inputs and the target's storage device
\* is disabled; and whenever the control lines are switched to output mode
\* all three are already low.
C34_BusMasterBetweenOperations ==
  /\ []((pc \in ReturnLabels \cup Idle) => BusMaster(pins))
  /\ [][(pins.cs = "in" /\ pins'.cs = "out")
          => (pins.mi = 0 /\ pins.ri = 0 /\ pins.ro = 0)]_vars

\* set_pc returns after get_pc, read_ram, write_ram, run(1) and write_ram
C34_Witness ==
  /\ pc = "sp1149" /\ gh.op = "set_pc" /\ fr.cur # fr.sv
  /\ gh.ramWrites >= 2
  /\ BusMaster(pins)

(***************************************************************************)
(* Control lines during the transfers                                      *)
(***************************************************************************)
\* C35: in every state of a write_ram and the read_ram after it the programmer
\* does not drive the bus while RO is high, and MI is never high together with
\* RI or RO; during read_ram RI stays low and no step changes the RAM.
C35_ControlLineExclusivity ==
  /\ [](~(pins.bus = "out" /\ pins.ro = 1))
  /\ [](~(pins.mi = 1 /\ (pins.ri = 1 \/ pins.ro = 1)))
  /\ [](gh.op = "read" => pins.ri = 0)
  /\ [][(gh.op = "read" /\ gh'.op = "read") => ram' = ram]_vars

\* read_ram is about to sample the second byte: RO is high, MI low, the bus
\* pins are inputs
C35_Witness ==
  /\ pc = "rr214" /\ gh.op = "read" /\ fr.xi = 1
  /\ pins.ro = 1 /\ pins.mi = 0 /\ pins.ri = 0 /\ pins.bus = "in"

(***************************************************************************)
(* The addresses an assembly pass writes to                                *)
(***************************************************************************)
\* the last line emitted a byte
LastLineEmitted ==
  AsmLineDone /\ \E c \in 0..(RamSize - 1) : asm.writer[c] = asm.nlines

\* the last line was assembled at a write address above the RAM and its byte
\* replaced the byte an earlier line of the pass had emitted
OverwroteEarlier ==
  /\ LastLineEmitted
  /\ asm.before.a >= RamSize
  /\ asm.before.writer[EmitCell] # 0

\* C36: every RAM write of an assembly pass, emitted byte or patch of a
\* forward reference, is made at an address in 0..15, and no line assembled
\* at a higher write address replaces a byte emitted earlier in the pass.
C36_AssemblyInsideImage ==
  /\ LastLineEmitted => asm.before.a \in 0..(RamSize - 1)
  /\ \A k \in 1..Len(asm.patches) : asm.patches[k].site \in 0..(RamSize - 1)
  /\ ~OverwroteEarlier
=============================================================================
